---- MODULE Spec2Model ----
(***************************************************************************)
(* A model of the sandboxed tool boundary (src/mcp.py) and of the          *)
(* three-phase orchestrator mcp_fast_iterative (src/create_backend.py).    *)
(*                                                                         *)
(* Text is modelled as a sequence of tokens, each token standing for a     *)
(* fixed piece of text:                                                    *)
(*   "fence_json"  three backticks followed by the word json               *)
(*   "fence"    three backticks                                            *)
(*   "bs"       one backslash character                                    *)
(*   "s"        the letter s                                               *)
(*   "nl"       one whitespace character (a newline)                       *)
(*   "{" "}" "[" "]" "," ":"   the JSON structural characters              *)
(*   a member of StringLits    a JSON string literal, quotes included      *)
(*   "5" "null"                a JSON number and the JSON null             *)
(*   "prose"    a word of prose holding none of the characters above       *)
(* Path strings are sequences of single characters.                        *)
(***************************************************************************)
EXTENDS Integers, Sequences, FiniteSets, TLC

(***************************************************************************)
(* Bounds of the model.                                                    *)
(***************************************************************************)
MaxFiles == 3

MaxPathLen == 4

(***************************************************************************)
(* JSON values, as json.loads builds them: every value is a record of the  *)
(* same four fields so that any two values can be compared.                *)
(***************************************************************************)
NullV == [t |-> "null", s |-> "", keys |-> <<>>, items |-> <<>>]

Str(x) == [t |-> "str", s |-> x, keys |-> <<>>, items |-> <<>>]

Num(x) == [t |-> "num", s |-> x, keys |-> <<>>, items |-> <<>>]

Arr(xs) == [t |-> "arr", s |-> "", keys |-> <<>>, items |-> xs]

Obj(ks, xs) == [t |-> "obj", s |-> "", keys |-> ks, items |-> xs]

StringLits ==
  {"implementation_plan", "files", "path", "description", "dependencies",
   "notes", "a.txt", "b.txt", "c.txt", "d.txt", "e.txt", "d1", "fastapi"}

Whitespace == {"nl"}

\* dict.__contains__ and dict.__getitem__: with a repeated key the last wins.
HasKey(o, k) == o.t = "obj" /\ \E i \in 1..Len(o.keys) : o.keys[i] = k

GetKey(o, k) ==
  LET idx == {i \in 1..Len(o.keys) : o.keys[i] = k}
      last == CHOOSE i \in idx : \A j \in idx : j <= i
  IN o.items[last]

(***************************************************************************)
(* json.loads on a token sequence: a recursive-descent parser.  A parse    *)
(* step returns [ok, v, next]: whether a value was read, the value, and    *)
(* the index after it.                                                     *)
(***************************************************************************)
RECURSIVE SkipWs(_, _)
SkipWs(t, i) ==
  IF i <= Len(t) /\ t[i] \in Whitespace THEN SkipWs(t, i + 1) ELSE i

ParseFail == [ok |-> FALSE, v |-> NullV, next |-> 0]

ParseOk(v, n) == [ok |-> TRUE, v |-> v, next |-> n]

Tok(t, i) == IF i >= 1 /\ i <= Len(t) THEN t[i] ELSE "<eof>"

RECURSIVE ParseValue(_, _)
RECURSIVE ParseMembers(_, _, _, _)
RECURSIVE ParseItems(_, _, _)

ParseValue(t, i) ==
  LET j == SkipWs(t, i)
      c == Tok(t, j)
  IN CASE c = "{" ->
            IF Tok(t, SkipWs(t, j + 1)) = "}"
            THEN ParseOk(Obj(<<>>, <<>>), SkipWs(t, j + 1) + 1)
            ELSE ParseMembers(t, j + 1, <<>>, <<>>)
       [] c = "[" ->
            IF Tok(t, SkipWs(t, j + 1)) = "]"
            THEN ParseOk(Arr(<<>>), SkipWs(t, j + 1) + 1)
            ELSE ParseItems(t, j + 1, <<>>)
       [] c \in StringLits -> ParseOk(Str(c), j + 1)
       [] c = "5" -> ParseOk(Num(c), j + 1)
       [] c = "null" -> ParseOk(NullV, j + 1)
       [] OTHER -> ParseFail

ParseMembers(t, i, ks, xs) ==
  LET j == SkipWs(t, i)
      k == SkipWs(t, j + 1)
  IN IF Tok(t, j) \in StringLits /\ Tok(t, k) = ":"
     THEN LET r == ParseValue(t, k + 1)
              m == SkipWs(t, r.next)
          IN IF ~r.ok THEN ParseFail
             ELSE IF Tok(t, m) = ","
                  THEN ParseMembers(t, m + 1, Append(ks, t[j]), Append(xs, r.v))
             ELSE IF Tok(t, m) = "}"
                  THEN ParseOk(Obj(Append(ks, t[j]), Append(xs, r.v)), m + 1)
             ELSE ParseFail
     ELSE ParseFail

ParseItems(t, i, xs) ==
  LET r == ParseValue(t, i)
      m == SkipWs(t, r.next)
  IN IF ~r.ok THEN ParseFail
     ELSE IF Tok(t, m) = "," THEN ParseItems(t, m + 1, Append(xs, r.v))
     ELSE IF Tok(t, m) = "]" THEN ParseOk(Arr(Append(xs, r.v)), m + 1)
     ELSE ParseFail

\* json.loads: the whole text must be one value; anything else is a
\* JSONDecodeError (ok = FALSE).
json_loads(t) ==
  LET r == ParseValue(t, 1)
  IN IF r.ok /\ SkipWs(t, r.next) > Len(t) THEN r ELSE ParseFail

(***************************************************************************)
(* json.dump: the text of a value.                                         *)
(***************************************************************************)
RECURSIVE json_dump(_)
RECURSIVE DumpItems(_, _)
RECURSIVE DumpMembers(_, _, _)

json_dump(v) ==
  CASE v.t = "obj" ->
         <<"{">> \o DumpMembers(v.keys, v.items, 1)
         \o (IF Len(v.keys) > 0 THEN <<"nl">> ELSE <<>>) \o <<"}">>
    [] v.t = "arr" ->
         <<"[">> \o DumpItems(v.items, 1)
         \o (IF Len(v.items) > 0 THEN <<"nl">> ELSE <<>>) \o <<"]">>
    [] v.t = "null" -> <<"null">>
    [] OTHER -> <<v.s>>

DumpItems(xs, i) ==
  IF i > Len(xs) THEN <<>>
  ELSE (IF i > 1 THEN <<",">> ELSE <<>>) \o <<"nl">> \o json_dump(xs[i])
       \o DumpItems(xs, i + 1)

DumpMembers(ks, xs, i) ==
  IF i > Len(ks) THEN <<>>
  ELSE (IF i > 1 THEN <<",">> ELSE <<>>) \o <<"nl", ks[i], ":">>
       \o json_dump(xs[i]) \o DumpMembers(ks, xs, i + 1)

(***************************************************************************)
(* The two searches of the plan parser.  A search returns                  *)
(* [found, text]: whether the pattern matched and the matched group.       *)
(***************************************************************************)
NoMatch == [found |-> FALSE, text |-> <<>>]

RECURSIVE SkipS(_, _)
SkipS(t, i) == IF i <= Len(t) /\ t[i] = "s" THEN SkipS(t, i + 1) ELSE i

\* Three backticks match the token of three backticks and the head of the
\* fence-opener token.
IsBackticks(c) == c \in {"fence", "fence_json"}

\* Line 132, the fence search.  The pattern is written with a doubled backslash:
\* in a raw string the two backslashes are the regex for one backslash
\* character, followed by any number of the letter s.  The match starts at
\* the leftmost fence opener from which the rest can match; the lazy group
\* then ends at the nearest closing brace that lets the rest match.
FenceEnds(t, a) ==
  {b \in (a + 1)..Len(t) :
      /\ t[b] = "}"
      /\ Tok(t, b + 1) = "bs"
      /\ IsBackticks(Tok(t, SkipS(t, b + 2)))}

FenceStarts(t) ==
  {i \in 1..Len(t) :
      /\ t[i] = "fence_json"
      /\ Tok(t, i + 1) = "bs"
      /\ Tok(t, SkipS(t, i + 2)) = "{"
      /\ FenceEnds(t, SkipS(t, i + 2)) # {}}

FenceSearch(t) ==
  IF FenceStarts(t) = {} THEN NoMatch
  ELSE LET i == CHOOSE x \in FenceStarts(t) : \A y \in FenceStarts(t) : x <= y
           a == SkipS(t, i + 2)
           b == CHOOSE x \in FenceEnds(t, a) : \A y \in FenceEnds(t, a) : x <= y
       IN [found |-> TRUE, text |-> SubSeq(t, a, b)]

\* Line 136, the fallback search: the greedy pattern runs from the first
\* opening brace to the last closing brace of the text.
FallbackSearch(t) ==
  LET opens == {i \in 1..Len(t) : t[i] = "{"}
      a == CHOOSE x \in opens : \A y \in opens : x <= y
      closes == {i \in 1..Len(t) : t[i] = "}" /\ i > a}
      b == CHOOSE x \in closes : \A y \in closes : y <= x
  IN IF opens = {} THEN NoMatch
     ELSE IF closes = {} THEN NoMatch
     ELSE [found |-> TRUE, text |-> SubSeq(t, a, b)]

\* Lines 132-140: the text handed to json.loads.
JsonStr(plan_content) ==
  IF FenceSearch(plan_content).found THEN FenceSearch(plan_content)
  ELSE FallbackSearch(plan_content)

\* A parser that takes the whole parsed object as the plan.
ParsePlanNoWrapper(plan_content) ==
  LET m == JsonStr(plan_content)
      r == json_loads(m.text)
      implementation_plan == r.v
      none == [exc |-> "none", json_str |-> m.text, plan |-> NullV, files |-> NullV]
  IN IF ~m.found THEN [none EXCEPT !.exc = "ValueError"]
     ELSE IF ~r.ok THEN [none EXCEPT !.exc = "JSONDecodeError"]
     ELSE IF implementation_plan.t # "obj" THEN [none EXCEPT !.exc = "TypeError"]
     ELSE IF ~HasKey(implementation_plan, "files")
          THEN [none EXCEPT !.exc = "KeyError"]
     ELSE [none EXCEPT !.plan = implementation_plan,
                       !.files = GetKey(implementation_plan, "files")]

\* Lines 130-147, the try block of the plan parser.  exc is "none" or the
\* exception the block raises.
ParsePlan(plan_content) ==
  LET m == JsonStr(plan_content)
      r == json_loads(m.text)
      plan_json == r.v
      implementation_plan ==
        IF HasKey(plan_json, "implementation_plan")
        THEN GetKey(plan_json, "implementation_plan")
        ELSE plan_json
      none == [exc |-> "none", json_str |-> m.text, plan |-> NullV, files |-> NullV]
  IN IF ~m.found THEN [none EXCEPT !.exc = "ValueError"]
     ELSE IF ~r.ok THEN [none EXCEPT !.exc = "JSONDecodeError"]
     ELSE IF implementation_plan.t # "obj" THEN [none EXCEPT !.exc = "TypeError"]
     ELSE IF ~HasKey(implementation_plan, "files")
          THEN [none EXCEPT !.exc = "KeyError"]
     ELSE [none EXCEPT !.plan = implementation_plan,
                       !.files = GetKey(implementation_plan, "files")]

\* Line 146: the exceptions the parser turns into a RuntimeError.
ParseCaught == {"JSONDecodeError", "KeyError", "ValueError"}

(***************************************************************************)
(* The filesystem.  A path string is a sequence of tokens: "/", ".", or a  *)
(* piece of a name.  A name is the sequence of tokens between two          *)
(* slashes; an absolute path is a sequence of names.  A filesystem maps    *)
(* each existing absolute path to its node; the path <<>> is "/".          *)
(***************************************************************************)
RootStr == <<"/", "w">>

RootPath == << <<"w">> >>

OutsidePath == << <<"o">> >>

PlanFileName == <<"implementation_plan.json">>

DirNode == [kind |-> "dir", content |-> <<>>, target |-> <<>>]

FileNode(c) == [kind |-> "file", content |-> c, target |-> <<>>]

LinkNode(p) == [kind |-> "link", content |-> <<>>, target |-> p]

IsPrefix(p, q) == Len(p) <= Len(q) /\ SubSeq(q, 1, Len(p)) = p

Parent(p) == SubSeq(p, 1, Len(p) - 1)

Exists(f, p) == p \in DOMAIN f

\* os.path.realpath of a sequence of names: ".." steps up, a symbolic link
\* is replaced by its target (targets are absolute and hold no link).
RECURSIVE Realpath(_, _, _, _)
Realpath(f, names, i, acc) ==
  IF i > Len(names) THEN acc
  ELSE IF names[i] = <<".", ".">>
       THEN Realpath(f, names, i + 1, IF acc = <<>> THEN acc ELSE Parent(acc))
  ELSE LET q == Append(acc, names[i])
       IN IF Exists(f, q) /\ f[q].kind = "link"
          THEN Realpath(f, names, i + 1, f[q].target)
          ELSE Realpath(f, names, i + 1, q)

\* pathlib's parsing of a path string: split at "/", drop empty names and ".".
RECURSIVE Names(_, _, _, _)
Names(str, i, cur, acc) ==
  LET flush == IF cur = <<>> \/ cur = <<".">> THEN acc ELSE Append(acc, cur)
  IN IF i > Len(str) THEN flush
     ELSE IF str[i] = "/" THEN Names(str, i + 1, <<>>, flush)
     ELSE Names(str, i + 1, Append(cur, str[i]), acc)

IsAbsolute(str) == Len(str) > 0 /\ str[1] = "/"

\* Path.resolve() of a path string.
Resolve(f, str) == Realpath(f, Names(str, 1, <<>>, <<>>), 1, <<>>)

\* Workspace._resolve, lines 41-47: [ok, p]; ok = FALSE is WorkspaceError.
ContainmentCheck(p) == IsPrefix(RootPath, p)

\* A resolution that normalises ".." in the text and follows no link.
ResolveTargetLexical(f, path) ==
  LET g == [q \in {<<>>} |-> DirNode]
  IN IF ~IsPrefix(RootStr, path)
     THEN Resolve(g, IF IsAbsolute(path) THEN path ELSE RootStr \o <<"/">> \o path)
     ELSE Resolve(g, path)

ResolveTarget(f, path) ==
  IF ~IsPrefix(RootStr, path)
  THEN Resolve(f, IF IsAbsolute(path) THEN path ELSE RootStr \o <<"/">> \o path)
  ELSE Resolve(f, path)

_resolve(f, path) ==
  LET p == ResolveTarget(f, path)
  IN [ok |-> ContainmentCheck(p), p |-> p]

\* Path.mkdir(parents=True, exist_ok=True) on an absolute path whose
\* ancestors are directories or missing.
RECURSIVE MkdirParents(_, _)
MkdirParents(f, p) ==
  IF p = <<>> \/ Exists(f, p) THEN f
  ELSE LET g == MkdirParents(f, Parent(p))
       IN [q \in DOMAIN g \cup {p} |-> IF q = p THEN DirNode ELSE g[q]]

\* Some proper ancestor of p is a regular file.
AncestorIsFile(f, p) ==
  \E k \in 0..(Len(p) - 1) :
     Exists(f, SubSeq(p, 1, k)) /\ f[SubSeq(p, 1, k)].kind = "file"

\* open(p, "w") or open(p, "a"): "none" or the exception it raises.
OpenForWriteError(f, p) ==
  IF AncestorIsFile(f, p) THEN "NotADirectoryError"
  ELSE IF ~Exists(f, Parent(p)) THEN "FileNotFoundError"
  ELSE IF Exists(f, p) /\ f[p].kind = "dir" THEN "IsADirectoryError"
  ELSE "none"

WriteFile(f, p, c) ==
  [q \in DOMAIN f \cup {p} |-> IF q = p THEN FileNode(c) ELSE f[q]]

\* Path.mkdir(parents=True, exist_ok=exist_ok): [exc, fs].
Mkdir(f, p, exist_ok) ==
  IF Exists(f, p)
  THEN [exc |-> IF exist_ok /\ f[p].kind = "dir" THEN "none" ELSE "FileExistsError",
        fs |-> f]
  ELSE IF AncestorIsFile(f, p) THEN [exc |-> "NotADirectoryError", fs |-> f]
  ELSE [exc |-> "none", fs |-> MkdirParents(f, p)]

\* shutil.rmtree(p) and Path.unlink(): p and everything below it goes.
Remove(f, p) == [q \in {x \in DOMAIN f : ~IsPrefix(p, x)} |-> f[q]]

\* Workspace.__post_init__, lines 37-39, as _get_ws runs it for every tool
\* call (lines 66-75): the root is created when it is missing.
WorkspaceInit(f) == MkdirParents(f, RootPath)

\* Path.is_dir(), which follows a final symbolic link.
IsDir(f, p) ==
  /\ Exists(f, p)
  /\ \/ f[p].kind = "dir"
     \/ f[p].kind = "link" /\ Exists(f, f[p].target) /\ f[f[p].target].kind = "dir"

RelTo(p, base) == SubSeq(p, Len(base) + 1, Len(p))

\* base.rglob("*"): every path below base reached through real directories.
RGlob(f, base) ==
  {q \in DOMAIN f :
      /\ IsPrefix(base, q) /\ q # base
      /\ \A k \in Len(base)..(Len(q) - 1) :
            Exists(f, SubSeq(q, 1, k)) /\ f[SubSeq(q, 1, k)].kind = "dir"}

InParts(name, parts) == \E i \in 1..Len(parts) : parts[i] = name

\* fs_list(path), lines 220-248, with glob=None and recursive=True: the
\* sorted entries as a set of [type, rel].
FsListItems(f, base) ==
  {[type |-> IF IsDir(f, q) THEN "d" ELSE "f", rel |-> RelTo(q, RootPath)] :
     q \in {x \in RGlob(f, base) :
              \/ ~InParts(<<"node_modules">>, RelTo(x, RootPath))
              \/ RelTo(x, RootPath) = << <<"node_modules">> >>}}

(***************************************************************************)
(* The tools (src/mcp.py 147-425).  A tool call takes a filesystem and     *)
(* gives [fs, res]: the filesystem it leaves and what it returned or       *)
(* raised.  res.raised is "none" when the tool returned a string; marker   *)
(* is then what the string starts with.                                    *)
(***************************************************************************)
NoCall ==
  [tool |-> "none", raised |-> "none", marker |-> "none", args |-> <<>>,
   detail |-> <<>>, steps |-> <<>>, result |-> <<>>]

Raises(tool, exc, args) ==
  [tool |-> tool, raised |-> exc, marker |-> "none", args |-> args,
   detail |-> <<>>, steps |-> <<>>, result |-> <<>>]

Says(tool, marker, args, detail) ==
  [tool |-> tool, raised |-> "none", marker |-> marker, args |-> args,
   detail |-> detail, steps |-> <<>>, result |-> <<>>]

\* The bound of a file's content, in chunks.
MaxContent == 2

\* The bound of a process's output and of max_output_bytes, in bytes.
MaxOutput == 2

\* A writer that appends only when it also creates directories.
fs_writeCoupled(f0, path, content, create_dirs, append) ==
  LET f == WorkspaceInit(f0)
      r == _resolve(f, path)
      args == [path |-> path, create_dirs |-> create_dirs, append |-> append]
      made == IF create_dirs THEN Mkdir(f, Parent(r.p), TRUE)
              ELSE [exc |-> "none", fs |-> f]
      g == made.fs
      old == IF append /\ create_dirs /\ Exists(g, r.p) THEN g[r.p].content ELSE <<>>
  IN IF ~r.ok THEN [fs |-> f, res |-> Raises("fs_write", "WorkspaceError", args)]
     ELSE IF made.exc # "none"
          THEN [fs |-> f, res |-> Says("fs_write", "Error", args, made.exc)]
     ELSE IF OpenForWriteError(g, r.p) # "none"
          THEN [fs |-> g,
                res |-> Says("fs_write", "Error", args, OpenForWriteError(g, r.p))]
     ELSE [fs |-> WriteFile(g, r.p, old \o content),
           res |-> Says("fs_write", "Success", args, IF append THEN "Appended" ELSE "Wrote")]

\* fs_write, lines 154-169.
fs_write(f0, path, content, create_dirs, append) ==
  LET f == WorkspaceInit(f0)
      r == _resolve(f, path)
      args == [path |-> path, create_dirs |-> create_dirs, append |-> append]
      made == IF create_dirs THEN Mkdir(f, Parent(r.p), TRUE)
              ELSE [exc |-> "none", fs |-> f]
      g == made.fs
      old == IF append /\ Exists(g, r.p) THEN g[r.p].content ELSE <<>>
  IN IF ~r.ok THEN [fs |-> f, res |-> Raises("fs_write", "WorkspaceError", args)]
     ELSE IF made.exc # "none"
          THEN [fs |-> f, res |-> Says("fs_write", "Error", args, made.exc)]
     ELSE IF OpenForWriteError(g, r.p) # "none"
          THEN [fs |-> g,
                res |-> Says("fs_write", "Error", args, OpenForWriteError(g, r.p))]
     ELSE [fs |-> WriteFile(g, r.p, old \o content),
           res |-> Says("fs_write", "Success", args, IF append THEN "Appended" ELSE "Wrote")]

\* fs_read, lines 171-192, with max_bytes=None.
fs_read(f0, path) ==
  LET f == WorkspaceInit(f0)
      r == _resolve(f, path)
      args == [path |-> path]
  IN IF ~r.ok THEN [fs |-> f, res |-> Raises("fs_read", "WorkspaceError", args)]
     ELSE IF AncestorIsFile(f, r.p)
          THEN [fs |-> f, res |-> Says("fs_read", "Error", args, "NotADirectoryError")]
     ELSE IF ~Exists(f, r.p)
          THEN [fs |-> f, res |-> Says("fs_read", "Error", args, "File not found")]
     ELSE IF f[r.p].kind = "dir"
          THEN [fs |-> f, res |-> Says("fs_read", "Error", args, "IsADirectoryError")]
     ELSE [fs |-> f, res |-> Says("fs_read", "Success", args, f[r.p].content)]

\* Lines 200-217 of fs_read_files: the report for one path.  The path is
\* resolved inside the try, so that a WorkspaceError is reported like any
\* other exception.
ReadReport(f, path) ==
  LET r == _resolve(f, path)
      failed(kind, exc) == [kind |-> kind, path |-> path, detail |-> exc, content |-> <<>>]
  IN IF ~r.ok THEN failed("Error reading", "WorkspaceError")
     ELSE IF AncestorIsFile(f, r.p) THEN failed("Error reading", "NotADirectoryError")
     ELSE IF ~Exists(f, r.p) THEN failed("Error: File not found", "FileNotFoundError")
     ELSE IF f[r.p].kind = "dir" THEN failed("Error reading", "IsADirectoryError")
     ELSE [kind |-> "Content of", path |-> path, detail |-> "none",
           content |-> f[r.p].content]

\* The first word of a report.
ReportMarker(rep) == IF rep.kind = "Content of" THEN "Content" ELSE "Error"

\* A reader that gives up at the first path that fails.
fs_read_filesStopAtError(f0, paths) ==
  LET f == WorkspaceInit(f0)
      bad == {i \in 1..Len(paths) : ReadReport(f, paths[i]).kind # "Content of"}
      n == IF bad = {} THEN Len(paths) ELSE CHOOSE i \in bad : \A j \in bad : i <= j
      reports == [i \in 1..n |-> ReadReport(f, paths[i])]
  IN [fs |-> f,
      res |-> Says("fs_read_files",
                   IF reports = <<>> THEN "none" ELSE ReportMarker(reports[1]),
                   [paths |-> paths], reports)]

\* fs_read_files, lines 194-218, with max_bytes_per_file=None: the reports
\* that are joined into the returned string.
fs_read_files(f0, paths) ==
  LET f == WorkspaceInit(f0)
      reports == [i \in 1..Len(paths) |-> ReadReport(f, paths[i])]
  IN [fs |-> f,
      res |-> Says("fs_read_files",
                   IF reports = <<>> THEN "none" ELSE ReportMarker(reports[1]),
                   [paths |-> paths], reports)]

\* fs_mkdir, lines 250-259.
fs_mkdir(f0, path, exist_ok) ==
  LET f == WorkspaceInit(f0)
      r == _resolve(f, path)
      args == [path |-> path, exist_ok |-> exist_ok]
      made == Mkdir(f, r.p, exist_ok)
  IN IF ~r.ok THEN [fs |-> f, res |-> Raises("fs_mkdir", "WorkspaceError", args)]
     ELSE IF made.exc # "none"
          THEN [fs |-> f, res |-> Says("fs_mkdir", "Error", args, made.exc)]
     ELSE [fs |-> made.fs, res |-> Says("fs_mkdir", "Success", args, "Created")]

\* fs_delete, lines 261-278.
fs_delete(f0, path, recursive) ==
  LET f == WorkspaceInit(f0)
      r == _resolve(f, path)
      args == [path |-> path, recursive |-> recursive]
  IN IF ~r.ok THEN [fs |-> f, res |-> Raises("fs_delete", "WorkspaceError", args)]
     ELSE IF ~Exists(f, r.p)
          THEN [fs |-> f, res |-> Says("fs_delete", "Error", args, "does not exist")]
     ELSE IF f[r.p].kind = "dir" /\ ~recursive
          THEN [fs |-> f, res |-> Says("fs_delete", "Error", args, "is a directory")]
     ELSE [fs |-> Remove(f, r.p), res |-> Says("fs_delete", "Success", args, "Deleted")]

\* os.rename(s, d) done: s and everything below it is found at d.
MoveTree(f, s, d) ==
  LET moved == {x \in DOMAIN f : IsPrefix(s, x)}
      kept == {x \in DOMAIN f : ~IsPrefix(s, x)}
  IN [q \in kept \cup {d \o RelTo(x, s) : x \in moved} |->
        IF IsPrefix(d, q) /\ (s \o RelTo(q, d)) \in moved
        THEN f[s \o RelTo(q, d)] ELSE f[q]]

\* shutil.move(src, dst) on two resolved paths: [exc, fs].  A destination
\* that is a directory takes the source under the source's own name;
\* os.rename replaces a regular file; a missing source, a directory moved
\* onto a file or into itself raise.
shutil_move(f, src, dst) ==
  LET real_dst == IF IsDir(f, dst) /\ src # dst
                  THEN Append(dst, src[Len(src)]) ELSE dst
  IN IF IsDir(f, dst) /\ src = dst THEN [exc |-> "none", fs |-> f]
     ELSE IF IsDir(f, dst) /\ Exists(f, real_dst) THEN [exc |-> "Error", fs |-> f]
     ELSE IF ~Exists(f, src) THEN [exc |-> "FileNotFoundError", fs |-> f]
     ELSE IF src = real_dst THEN [exc |-> "none", fs |-> f]
     ELSE IF f[src].kind = "dir" /\ IsPrefix(src, real_dst)
          THEN [exc |-> "Error", fs |-> f]
     ELSE IF f[src].kind = "dir" /\ Exists(f, real_dst)
          THEN [exc |-> "FileExistsError", fs |-> f]
     ELSE [exc |-> "none", fs |-> MoveTree(f, src, real_dst)]

\* fs_move without the containment check of dst.
fs_moveUncheckedDst(f0, src, dst, overwrite) ==
  LET f == WorkspaceInit(f0)
      rs == _resolve(f, src)
      rd == _resolve(f, dst)
      args == [src |-> src, dst |-> dst, overwrite |-> overwrite]
      made == Mkdir(f, Parent(rd.p), TRUE)
      g == made.fs
      mv == shutil_move(g, rs.p, rd.p)
  IN IF ~rs.ok THEN [fs |-> f, res |-> Raises("fs_move", "WorkspaceError", args)]
     ELSE IF made.exc # "none"
          THEN [fs |-> f, res |-> Says("fs_move", "Error", args, made.exc)]
     ELSE IF Exists(g, rd.p) /\ ~overwrite
          THEN [fs |-> g, res |-> Says("fs_move", "Error", args, "exists")]
     ELSE IF mv.exc # "none"
          THEN [fs |-> g, res |-> Says("fs_move", "Error", args, mv.exc)]
     ELSE [fs |-> mv.fs, res |-> Says("fs_move", "Success", args, "Moved")]

\* fs_move, lines 280-293.
fs_move(f0, src, dst, overwrite) ==
  LET f == WorkspaceInit(f0)
      rs == _resolve(f, src)
      rd == _resolve(f, dst)
      args == [src |-> src, dst |-> dst, overwrite |-> overwrite]
      made == Mkdir(f, Parent(rd.p), TRUE)
      g == made.fs
      mv == shutil_move(g, rs.p, rd.p)
  IN IF ~rs.ok \/ ~rd.ok THEN [fs |-> f, res |-> Raises("fs_move", "WorkspaceError", args)]
     ELSE IF made.exc # "none"
          THEN [fs |-> f, res |-> Says("fs_move", "Error", args, made.exc)]
     ELSE IF Exists(g, rd.p) /\ ~overwrite
          THEN [fs |-> g, res |-> Says("fs_move", "Error", args, "exists")]
     ELSE IF mv.exc # "none"
          THEN [fs |-> g, res |-> Says("fs_move", "Error", args, mv.exc)]
     ELSE [fs |-> mv.fs, res |-> Says("fs_move", "Success", args, "Moved")]

\* fs_stat, lines 295-305.
fs_stat(f0, path) ==
  LET f == WorkspaceInit(f0)
      r == _resolve(f, path)
      args == [path |-> path]
  IN IF ~r.ok THEN [fs |-> f, res |-> Raises("fs_stat", "WorkspaceError", args)]
     ELSE IF ~Exists(f, r.p)
          THEN [fs |-> f, res |-> Says("fs_stat", "Error", args, "does not exist")]
     ELSE [fs |-> f, res |-> Says("fs_stat", "Success", args, f[r.p].kind)]

\* A node of the syntax tree ast.parse gives for a file: a definition with
\* its name, whether its body starts with a docstring, and the definitions
\* in its body.  A file that does not parse holds one node "SyntaxError".
AstNode(kind, name, doc, body) == [kind |-> kind, name |-> name, doc |-> doc, body |-> body]

\* ast.walk, line 318: the nodes breadth first, each node before the nodes
\* of its body.
RECURSIVE ast_walk(_)
ast_walk(todo) ==
  IF todo = <<>> THEN <<>> ELSE <<Head(todo)>> \o ast_walk(Tail(todo) \o Head(todo).body)

\* isinstance(node, ast.FunctionDef) for every kind of definition.
IsFunctionDefOrAsync(node) == node.kind \in {"FunctionDef", "AsyncFunctionDef"}

\* Line 319: isinstance(node, ast.FunctionDef); ast.AsyncFunctionDef is a
\* class of its own and no subclass of ast.FunctionDef.
IsFunctionDef(node) == node.kind = "FunctionDef"

\* Lines 320-324: the name of the function and its docstring.
FuncInfo(node) == [name |-> node.name, doc |-> node.doc]

\* Lines 317-324: the functions collected from the parsed file.
CollectFunctions(tree) ==
  LET found == SelectSeq(ast_walk(tree), IsFunctionDef)
  IN [i \in 1..Len(found) |-> FuncInfo(found[i])]

\* fs_read_function_definitions, lines 307-331.
fs_read_function_definitions(f0, path) ==
  LET f == WorkspaceInit(f0)
      r == _resolve(f, path)
      args == [path |-> path]
      tool == "fs_read_function_definitions"
  IN IF ~r.ok THEN [fs |-> f, res |-> Raises(tool, "WorkspaceError", args)]
     ELSE IF ~Exists(f, r.p)
          THEN [fs |-> f, res |-> Says(tool, "Error", args, "does not exist")]
     ELSE IF f[r.p].kind = "dir"
          THEN [fs |-> f, res |-> Says(tool, "Error", args, "IsADirectoryError")]
     ELSE IF \E i \in 1..Len(f[r.p].content) : f[r.p].content[i].kind = "SyntaxError"
          THEN [fs |-> f, res |-> Says(tool, "Error", args, "SyntaxError")]
     ELSE IF CollectFunctions(f[r.p].content) = <<>>
          THEN [fs |-> f, res |-> Says(tool, "Success", args, "No function definitions")]
     ELSE [fs |-> f,
           res |-> [Says(tool, "Success", args, "Found function definitions")
                      EXCEPT !.result = CollectFunctions(f[r.p].content)]]

\* Lines 228-241 of fs_list: whether the entry at q, found under base, is
\* listed.  Of node_modules only the directory at the top of the root is
\* shown; without recursion an entry is skipped when its parent is neither
\* the path as given nor the root.
ListShown(q, base, path, recursive) ==
  LET rel_path == RelTo(q, RootPath)
      parent == Parent(rel_path)
  IN IF InParts(<<"node_modules">>, rel_path)
     THEN rel_path = << <<"node_modules">> >>
     ELSE \/ recursive
          \/ (~IsAbsolute(path) /\ parent = Names(path, 1, <<>>, <<>>))
          \/ parent = <<>>

\* base.iterdir(): the children of a directory.
IterDir(f, base) == {q \in DOMAIN f : q # <<>> /\ Parent(q) = base}

\* fs_list, lines 220-248, with glob=None.
fs_list(f0, path, recursive) ==
  LET f == WorkspaceInit(f0)
      r == _resolve(f, path)
      args == [path |-> path, recursive |-> recursive]
      paths == IF recursive THEN RGlob(f, r.p) ELSE IterDir(f, r.p)
      items == {[type |-> IF IsDir(f, q) THEN "d" ELSE "f", rel |-> RelTo(q, RootPath)] :
                  q \in {x \in paths : ListShown(x, r.p, path, recursive)}}
  IN IF ~r.ok THEN [fs |-> f, res |-> Raises("fs_list", "WorkspaceError", args)]
     ELSE IF ~recursive /\ ~Exists(f, r.p)
          THEN [fs |-> f, res |-> Says("fs_list", "Error", args, "FileNotFoundError")]
     ELSE IF ~recursive /\ f[r.p].kind # "dir"
          THEN [fs |-> f, res |-> Says("fs_list", "Error", args, "NotADirectoryError")]
     ELSE [fs |-> f, res |-> Says("fs_list", "Success", args, items)]

(***************************************************************************)
(* The command executor.  A command string is a sequence of tokens, " "    *)
(* being one whitespace character and any other token a run of             *)
(* non-whitespace characters.                                              *)
(***************************************************************************)
ALLOWED_COMMANDS ==
  {"node", "npm", "pnpm", "yarn", "npx", "vite", "python", "pip", "uv",
   "pytest", "ruff", "black", "mypy", "esbuild", "tsc", "git"}

\* str.strip().
RECURSIVE StripLeft(_)
StripLeft(c) == IF c # <<>> /\ c[1] = " " THEN StripLeft(Tail(c)) ELSE c

RECURSIVE StripRight(_)
StripRight(c) ==
  IF c # <<>> /\ c[Len(c)] = " " THEN StripRight(SubSeq(c, 1, Len(c) - 1)) ELSE c

Strip(c) == StripRight(StripLeft(c))

\* A check of the first word of the command only.
NotAllowedFirstWord(cmd) == ~(Len(cmd) >= 1 /\ cmd[1] \in ALLOWED_COMMANDS)

\* Line 79: cmd not in ALLOWED_COMMANDS.
NotAllowed(cmd) == ~(Len(cmd) = 1 /\ cmd[1] \in ALLOWED_COMMANDS)

\* The bytes a process writes: "b" and "e" are ASCII letters, " " is a
\* whitespace byte, "c1" "c2" are the two bytes of one character of UTF-8.
OutputBytes == {"b", " ", "c1", "c2"}

\* bytes.decode("utf-8", errors="replace"), line 100: a sequence of
\* characters; a byte that is no part of a complete character becomes the
\* replacement character U+FFFD.
RECURSIVE decode(_)
decode(b) ==
  IF b = <<>> THEN <<>>
  ELSE IF b[1] = "c1" /\ Len(b) >= 2 /\ b[2] = "c2"
       THEN <<"c1c2">> \o decode(SubSeq(b, 3, Len(b)))
  ELSE IF b[1] \in {"c1", "c2"} THEN <<"fffd">> \o decode(Tail(b))
  ELSE <<b[1]>> \o decode(Tail(b))

\* A cap that cuts also the output that is exactly as long as the cap.
TruncateAtCap(out, max_output_bytes) ==
  IF Len(out) >= max_output_bytes /\ Len(out) > 0
  THEN [out |-> SubSeq(out, 1, max_output_bytes), truncated |-> TRUE]
  ELSE [out |-> out, truncated |-> FALSE]

\* Lines 94-97: the cap on the captured bytes.
Truncate(out, max_output_bytes) ==
  IF Len(out) > max_output_bytes
  THEN [out |-> SubSeq(out, 1, max_output_bytes), truncated |-> TRUE]
  ELSE [out |-> out, truncated |-> FALSE]

\* What the operating system and the program do once subprocess.run is
\* called: the binary is missing, the program outlives the timeout, or it
\* exits with a code, having written stdout and stderr.
ProcOutcomes ==
  {[kind |-> k, code |-> c, stdout |-> o, stderr |-> e] :
     k \in {"exit"}, c \in {0, 1},
     o \in UNION {[1..n -> OutputBytes] : n \in 0..MaxOutput}, e \in {<<>>, <<"e">>}}
  \cup {[kind |-> k, code |-> 0, stdout |-> <<>>, stderr |-> <<>>] :
          k \in {"timeout", "notfound"}}

RunResult(ok, error, steps) ==
  [raised |-> "none", ok |-> ok, error |-> error, has_allowed |-> FALSE,
   has_command |-> FALSE, has_code |-> FALSE, code |-> 0, has_cwd |-> FALSE,
   cwd |-> <<>>, output |-> <<>>, truncated |-> FALSE, steps |-> steps]

\* subprocess.run(full, cwd=wd, timeout=timeout_sec), lines 84-88: the
\* exception it raises and what happened to the process.  A working
\* directory that is missing or no directory and a missing binary make the
\* spawn fail; a process that outlives the timeout is left running.
subprocess_runNoKill(f, cwd, proc) ==
  IF ~Exists(f, cwd) THEN [exc |-> "FileNotFoundError", trace |-> <<"run">>]
  ELSE IF f[cwd].kind # "dir" THEN [exc |-> "NotADirectoryError", trace |-> <<"run">>]
  ELSE IF proc.kind = "notfound" THEN [exc |-> "FileNotFoundError", trace |-> <<"run">>]
  ELSE IF proc.kind = "timeout" THEN [exc |-> "none", trace |-> <<"run", "spawn">>]
  ELSE [exc |-> "none", trace |-> <<"run", "spawn", "exit">>]

\* subprocess.run(full, cwd=wd, timeout=timeout_sec), lines 84-88: the
\* exception it raises and what happened to the process.  A working
\* directory that is missing or no directory and a missing binary make the
\* spawn fail; a process that outlives the timeout is killed and waited
\* for, and TimeoutExpired is raised.
subprocess_run(f, cwd, proc) ==
  IF ~Exists(f, cwd) THEN [exc |-> "FileNotFoundError", trace |-> <<"run">>]
  ELSE IF f[cwd].kind # "dir" THEN [exc |-> "NotADirectoryError", trace |-> <<"run">>]
  ELSE IF proc.kind = "notfound" THEN [exc |-> "FileNotFoundError", trace |-> <<"run">>]
  ELSE IF proc.kind = "timeout"
       THEN [exc |-> "TimeoutExpired", trace |-> <<"run", "spawn", "kill">>]
  ELSE [exc |-> "none", trace |-> <<"run", "spawn", "exit">>]

\* _run_command, lines 77-102.  steps lists, in order, what was executed:
\* the allow-list check, ws._resolve(workdir), subprocess.run, and within
\* it the spawn of the process and its exit or its kill.
_run_command(f, command, workdir, capture_stderr, max_output_bytes, proc) ==
  LET cmd == Strip(command)
      wd == _resolve(f, workdir)
      sp == subprocess_run(f, wd.p, proc)
      out == IF capture_stderr THEN proc.stdout \o proc.stderr ELSE proc.stdout
      ran == <<"check", "resolve">> \o sp.trace
  IN IF NotAllowed(cmd)
     THEN [RunResult(FALSE, "not allowed", <<"check">>) EXCEPT !.has_allowed = TRUE]
     ELSE IF ~wd.ok
          THEN [RunResult(FALSE, "none", <<"check", "resolve">>)
                  EXCEPT !.raised = "WorkspaceError"]
     ELSE IF sp.exc = "TimeoutExpired"
          THEN [RunResult(FALSE, "Timeout", ran) EXCEPT !.has_command = TRUE]
     ELSE IF sp.exc = "FileNotFoundError" THEN RunResult(FALSE, "Command not found", ran)
     ELSE IF sp.exc # "none"
          THEN [RunResult(FALSE, "none", ran) EXCEPT !.raised = sp.exc]
     ELSE [RunResult(proc.code = 0, "none", ran) EXCEPT
             !.has_command = TRUE, !.has_code = TRUE, !.code = proc.code,
             !.has_cwd = TRUE, !.cwd = RelTo(wd.p, RootPath),
             !.output = decode(Truncate(out, max_output_bytes).out),
             !.truncated = Truncate(out, max_output_bytes).truncated]

\* The keys of the result that _format_run_result reads, lines 105-113.
FormatReads == {"command", "cwd", "ok", "code", "error", "output", "truncated"}

\* A report without the line of the error.
_format_run_resultNoError(r) ==
  [status |-> IF r.ok THEN "Success" ELSE "Failure",
   allowed_shown |-> r.has_allowed /\ "allowed" \in FormatReads,
   code_shown |-> r.has_code,
   code |-> r.code,
   cwd |-> r.cwd,
   error_line |-> "none",
   output_shown |-> r.output # <<>>,
   output |-> Strip(r.output),
   truncated_line |-> r.output # <<>> /\ r.truncated]

\* _format_run_result, lines 104-115: the lines of the report.
_format_run_result(r) ==
  [status |-> IF r.ok THEN "Success" ELSE "Failure",
   allowed_shown |-> r.has_allowed /\ "allowed" \in FormatReads,
   code_shown |-> r.has_code,
   code |-> r.code,
   cwd |-> r.cwd,
   error_line |-> r.error,
   output_shown |-> r.output # <<>>,
   output |-> Strip(r.output),
   truncated_line |-> r.output # <<>> /\ r.truncated]

\* cmd_run, lines 361-378.
cmd_run(f0, command, workdir, capture_stderr, max_output_bytes, proc) ==
  LET f == WorkspaceInit(f0)
      r == _run_command(f, command, workdir, capture_stderr, max_output_bytes, proc)
      args == [command |-> command, workdir |-> workdir,
               capture_stderr |-> capture_stderr,
               max_output_bytes |-> max_output_bytes, proc |-> proc]
  IN IF r.raised # "none"
     THEN [fs |-> f,
           res |-> [Raises("cmd_run", r.raised, args) EXCEPT !.steps = r.steps]]
     ELSE [fs |-> f,
           res |-> [Says("cmd_run", "Command", args, _format_run_result(r))
                      EXCEPT !.steps = r.steps, !.result = r]]

(***************************************************************************)
(* The orchestrator, mcp_fast_iterative (src/create_backend.py 113-250).   *)
(***************************************************************************)
RecursionLimit == 250

\* The bound of batch_size: the run is started with -1, 0, ..., MaxBatch.
MaxBatch == 3

BatchSizes == (0 - 1)..MaxBatch

FileNames == <<"a.txt", "b.txt", "c.txt", "d.txt", "e.txt">>

\* The number of characters of a string literal (len of a Python str).
CharLen(x) ==
  CASE x \in {"a.txt", "b.txt", "c.txt", "d.txt", "e.txt", "files", "notes"} -> 5
    [] x = "d1" -> 2
    [] x = "path" -> 4
    [] x = "fastapi" -> 7
    [] x = "description" -> 11
    [] x = "dependencies" -> 12
    [] OTHER -> 19

\* len(files_to_implement): [ok, n]; ok = FALSE is a TypeError.
PyLen(v) ==
  CASE v.t = "arr" -> [ok |-> TRUE, n |-> Len(v.items)]
    [] v.t = "str" -> [ok |-> TRUE, n |-> CharLen(v.s)]
    [] v.t = "obj" ->
         [ok |-> TRUE, n |-> Cardinality({v.keys[i] : i \in 1..Len(v.keys)})]
    [] OTHER -> [ok |-> FALSE, n |-> 0]

\* What iterating or slicing the value walks over: the items of a list, the
\* characters of a str (one-character strings, their identity not kept).
PyItems(v) ==
  IF v.t = "arr" THEN v.items ELSE [i \in 1..CharLen(v.s) |-> Str("d1")]

\* range(0, n, step) for step # 0, as the sequence of its values.
RECURSIVE PyRange(_, _, _)
PyRange(i, n, step) ==
  IF step < 0 \/ i >= n THEN <<>> ELSE <<i>> \o PyRange(i + step, n, step)

\* A slice that loses its last element.
PySliceShort(xs, i, j) == SubSeq(xs, i + 1, IF j - 1 < Len(xs) THEN j - 1 ELSE Len(xs))

\* xs[i:j] of a Python sequence, 0 <= i <= j.
PySlice(xs, i, j) == SubSeq(xs, i + 1, IF j < Len(xs) THEN j ELSE Len(xs))

\* Line 163: [exc, batches].  len() of a number or of null raises
\* TypeError, a step of 0 raises ValueError, and slicing a dict raises (a
\* TypeError in Python 3.11).
FileBatches(files, size) ==
  LET n == PyLen(files)
      starts == PyRange(0, n.n, size)
  IN IF ~n.ok THEN [exc |-> "TypeError", batches |-> <<>>]
     ELSE IF size = 0 THEN [exc |-> "ValueError", batches |-> <<>>]
     ELSE IF files.t = "obj" /\ Len(starts) > 0
          THEN [exc |-> "TypeError", batches |-> <<>>]
     ELSE [exc |-> "none",
           batches |-> [k \in 1..Len(starts) |->
                          PySlice(PyItems(files), starts[k], starts[k] + size)]]

\* file_info["path"] and file_info["description"], lines 98 and 182: the
\* exception the first bad entry of the batch raises, or "none".
EntryError(e) ==
  IF e.t # "obj" THEN "TypeError"
  ELSE IF ~HasKey(e, "path") \/ ~HasKey(e, "description") THEN "KeyError"
  ELSE "none"

BatchPromptError(batch) ==
  LET bad == {i \in 1..Len(batch) : EntryError(batch[i]) # "none"}
  IN IF bad = {} THEN "none"
     ELSE EntryError(batch[CHOOSE i \in bad : \A j \in bad : i <= j])

\* [f["path"] for f in batch], lines 200 and 209.
BatchPaths(batch) == [i \in 1..Len(batch) |-> GetKey(batch[i], "path")]

\* Lines 198-203 and 207-212: the outcome appended for a batch.
SuccessOutcome(k, batch) ==
  [batch |-> k, files |-> BatchPaths(batch), status |-> "success"]

ErrorOutcome(k, batch) ==
  [batch |-> k, files |-> BatchPaths(batch), status |-> "error"]

\* Lines 246-247: sum(len(r['files']) for r in results if r["status"] == st).
RECURSIVE SumFiles(_, _, _)
SumFiles(results, st, i) ==
  IF i > Len(results) THEN 0
  ELSE (IF results[i].status = st THEN Len(results[i].files) ELSE 0)
       + SumFiles(results, st, i + 1)

FilesImplemented(results) == SumFiles(results, "success", 1)

\* A count of the failed batches instead of their files.
FilesFailedPerBatch(results) ==
  Cardinality({i \in 1..Len(results) : results[i].status = "error"})

FilesFailed(results) == SumFiles(results, "error", 1)

(***************************************************************************)
(* The planning responses the engine is taken to give.                     *)
(***************************************************************************)
FileObj(i) == Obj(<<"path", "description">>, <<Str(FileNames[i]), Str("d1")>>)

FileList(n) == Arr([i \in 1..n |-> FileObj(i)])

PlanOf(n) ==
  Obj(<<"files", "dependencies", "notes">>,
      <<FileList(n), Arr(<<Str("fastapi")>>), Str("d1")>>)

Wrapped(v) == Obj(<<"implementation_plan">>, <<v>>)

Fenced(b) == <<"fence_json", "nl">> \o b \o <<"nl", "fence">>

BsFenced(b) == <<"fence_json", "bs", "s">> \o b \o <<"bs", "s", "fence">>

Pres == {<<>>, <<"prose", "}", "nl">>, <<"prose", "{", "prose", "}", "nl">>}

Posts == {<<>>, <<"nl", "{", "prose">>, <<"nl", "{", "prose", "}">>}

GoodPlans ==
  {Wrapped(PlanOf(n)) : n \in 0..MaxFiles} \cup {PlanOf(2), Obj(<<"files">>, <<FileList(1)>>)}

OddPlans ==
  {Obj(<<"notes">>, <<Str("d1")>>), Wrapped(Obj(<<"notes">>, <<Str("d1")>>)),
   Wrapped(Arr(<<>>)), Wrapped(NullV), Wrapped(Str("d1")),
   Obj(<<"files">>, <<Num("5")>>), Obj(<<"files">>, <<NullV>>),
   Obj(<<"files">>, <<Str("d1")>>), Obj(<<"files">>, <<Obj(<<"path">>, <<Str("a.txt")>>)>>),
   Obj(<<"files">>, <<Obj(<<>>, <<>>)>>),
   Obj(<<"files">>, <<Arr(<<FileObj(1), Obj(<<"description">>, <<Str("d1")>>)>>)>>),
   Obj(<<"files">>, <<Arr(<<Str("a.txt")>>)>>)}

BrokenTexts ==
  {<<>>, <<"prose">>, <<"prose", "}", "{">>, <<"{", "files", ":", "[", "}">>,
   Fenced(<<"{", "files", "}">>)}

Responses ==
  {pre \o lay \o post :
     pre \in Pres, post \in Posts,
     lay \in UNION {{json_dump(v), Fenced(json_dump(v)), BsFenced(json_dump(v))} :
                      v \in GoodPlans}}
  \cup UNION {{json_dump(v), Fenced(json_dump(v))} : v \in OddPlans}
  \cup BrokenTexts

(***************************************************************************)
(* State.                                                                  *)
(*   pc                      the position of mcp_fast_iterative            *)
(*   batch_size              its argument                                  *)
(*   fs                      the filesystem                                *)
(*   plan_content .. testing_phase_result   its local variables            *)
(*   result                  the dictionary it returns                     *)
(*   raised                  the exception it raises                       *)
(*   calls                   the interactions the engine has been asked    *)
(*                           for, in order, each with how it ended         *)
(*   tool_result             the last tool call, of the running            *)
(*                           interaction when there is one: its arguments  *)
(*                           and what it returned or raised                *)
(***************************************************************************)
VARIABLES pc, batch_size, fs, plan_content, json_str, implementation_plan,
          files_to_implement, file_batches, batch_index, folder_structure,
          implementation_results, testing_phase_result, result, raised, calls,
          tool_result

vars == <<pc, batch_size, fs, plan_content, json_str, implementation_plan,
          files_to_implement, file_batches, batch_index, folder_structure,
          implementation_results, testing_phase_result, result, raised, calls,
          tool_result>>

orchVars ==
  <<pc, batch_size, plan_content, json_str, implementation_plan,
    files_to_implement, file_batches, batch_index, folder_structure,
    implementation_results, testing_phase_result, result, raised, calls>>

NoExc == [type |-> "none", cause |-> "none", content |-> <<>>]

Exc(type) == [type |-> type, cause |-> "none", content |-> <<>>]

\* testing_phase_result, lines 227-237: "final_message" or "error" is "none"
\* when the dictionary has no such key.
NoTesting == [status |-> "none", final_message |-> "none", error |-> "none"]

\* What an interaction of the engine may raise, as the text of str(e).
EngineErrors == {"EngineError", "GraphRecursionError"}

NoResult ==
  [plan |-> NullV, raw_response |-> <<>>, results |-> <<>>,
   files_implemented |-> 0, files_failed |-> 0, testing_phase |-> NoTesting]

EmptyFs == [q \in {<<>>, OutsidePath} |-> DirNode]

\* The run starts with the workspace root present or absent.
InitialFs == {EmptyFs, WorkspaceInit(EmptyFs)}

Init ==
  /\ pc = "start"
  /\ batch_size \in BatchSizes
  /\ fs \in InitialFs
  /\ plan_content = <<>>
  /\ json_str = <<>>
  /\ implementation_plan = NullV
  /\ files_to_implement = NullV
  /\ file_batches = <<>>
  /\ batch_index = 0
  /\ folder_structure = {}
  /\ implementation_results = <<>>
  /\ testing_phase_result = NoTesting
  /\ result = NoResult
  /\ raised = NoExc
  /\ calls = <<>>
  /\ tool_result = NoCall

Call(phase, k, limit) ==
  [phase |-> phase, batch |-> k, recursion_limit |-> limit, outcome |-> "running",
   error |-> "none"]

Ended(cs, how) == [cs EXCEPT ![Len(cs)].outcome = how]

Raised(cs, e) == [cs EXCEPT ![Len(cs)].outcome = "raised", ![Len(cs)].error = e]

\* Lines 120-125: the planning interaction is started.
PlanningInvoke ==
  /\ pc = "start"
  /\ pc' = "planning"
  /\ calls' = Append(calls, Call("planning", 0, 0))
  /\ UNCHANGED <<tool_result, batch_size, fs, plan_content, json_str, implementation_plan,
                 files_to_implement, file_batches, batch_index, folder_structure,
                 implementation_results, testing_phase_result, result, raised>>

\* Line 127: the engine's final message is the planning response.
PlanningReturnsFrom(R) ==
  /\ pc = "planning"
  /\ \E resp \in R : plan_content' = resp
  /\ pc' = "parse"
  /\ calls' = Ended(calls, "returned")
  /\ UNCHANGED <<tool_result, batch_size, fs, json_str, implementation_plan,
                 files_to_implement, file_batches, batch_index, folder_structure,
                 implementation_results, testing_phase_result, result, raised>>

PlanningReturns == PlanningReturnsFrom(Responses)

\* The planning interaction raises: nothing catches it.
PlanningRaises ==
  /\ pc = "planning"
  /\ pc' = "raised"
  /\ raised' = Exc("EngineError")
  /\ calls' = Ended(calls, "raised")
  /\ UNCHANGED <<tool_result, batch_size, fs, plan_content, json_str, implementation_plan,
                 files_to_implement, file_batches, batch_index, folder_structure,
                 implementation_results, testing_phase_result, result>>

\* Lines 130-147.
ParseStep ==
  /\ pc = "parse"
  /\ LET r == ParsePlan(plan_content)
     IN /\ json_str' = r.json_str
        /\ implementation_plan' = r.plan
        /\ files_to_implement' = r.files
        /\ IF r.exc = "none" THEN pc' = "save_plan" /\ UNCHANGED raised
           ELSE /\ pc' = "raised"
                /\ raised' = IF r.exc \in ParseCaught
                             THEN [type |-> "RuntimeError", cause |-> r.exc,
                                   content |-> plan_content]
                             ELSE Exc(r.exc)
  /\ UNCHANGED <<tool_result, batch_size, fs, plan_content, file_batches, batch_index,
                 folder_structure, implementation_results,
                 testing_phase_result, result, calls>>

PlanPath == Append(RootPath, PlanFileName)

\* A plan write whose failure is swallowed.
SavePlanIgnoringError ==
  /\ pc = "save_plan"
  /\ fs' = IF OpenForWriteError(fs, PlanPath) = "none"
            THEN WriteFile(fs, PlanPath, json_dump(implementation_plan))
            ELSE fs
  /\ pc' = "make_batches"
  /\ UNCHANGED <<tool_result, batch_size, plan_content, json_str, implementation_plan,
                 files_to_implement, file_batches, batch_index, folder_structure,
                 implementation_results, testing_phase_result, result, calls, raised>>

\* Lines 149-152: the plan is written to implementation_plan.json.
SavePlan ==
  /\ pc = "save_plan"
  /\ IF OpenForWriteError(fs, PlanPath) = "none"
     THEN /\ fs' = WriteFile(fs, PlanPath, json_dump(implementation_plan))
          /\ pc' = "make_batches"
          /\ UNCHANGED raised
     ELSE /\ pc' = "raised"
          /\ raised' = Exc(OpenForWriteError(fs, PlanPath))
          /\ UNCHANGED fs
  /\ UNCHANGED <<tool_result, batch_size, plan_content, json_str, implementation_plan,
                 files_to_implement, file_batches, batch_index, folder_structure,
                 implementation_results, testing_phase_result, result, calls>>

\* Lines 158-163: the tools are built (the root is created when missing)
\* and the file list is cut into batches.
MakeBatches ==
  /\ pc = "make_batches"
  /\ fs' = WorkspaceInit(fs)
  /\ LET b == FileBatches(files_to_implement, batch_size)
     IN IF b.exc = "none"
        THEN /\ file_batches' = b.batches
             /\ batch_index' = 1
             /\ pc' = IF Len(b.batches) > 0 THEN "batch_prepare" ELSE "testing"
             /\ UNCHANGED raised
        ELSE /\ pc' = "raised"
             /\ raised' = Exc(b.exc)
             /\ UNCHANGED <<file_batches, batch_index>>
  /\ UNCHANGED <<tool_result, batch_size, plan_content, json_str, implementation_plan,
                 files_to_implement, folder_structure, implementation_results,
                 testing_phase_result, result, calls>>

\* A listing read for the first batch only.
ReadFolderStructureOnce ==
  IF batch_index = 1 THEN FsListItems(WorkspaceInit(fs), RootPath) ELSE folder_structure

\* Lines 168-169: fs_list(".") with the configuration of the run.
ReadFolderStructure == FsListItems(WorkspaceInit(fs), RootPath)

\* Lines 165-194: the folder structure is read again, the prompt of the
\* batch is built and the batch interaction is started.
BatchPrepare ==
  /\ pc = "batch_prepare"
  /\ fs' = WorkspaceInit(fs)
  /\ folder_structure' = ReadFolderStructure
  /\ IF BatchPromptError(file_batches[batch_index]) = "none"
     THEN /\ pc' = "batch_invoke"
          /\ calls' = Append(calls, Call("implementation", batch_index, RecursionLimit))
          /\ UNCHANGED raised
     ELSE /\ pc' = "raised"
          /\ raised' = Exc(BatchPromptError(file_batches[batch_index]))
          /\ UNCHANGED calls
  /\ UNCHANGED <<tool_result, batch_size, plan_content, json_str, implementation_plan,
                 files_to_implement, file_batches, batch_index,
                 implementation_results, testing_phase_result, result>>

\* What the engine writes into a file.
AgentContent == <<"x">>

\* The tool calls the engine may make while it implements a batch: it
\* writes a file of the batch, or writes or deletes the plan file.
AgentCalls(f, batch) ==
  {fs_write(f, <<v.s>>, AgentContent, TRUE, FALSE) :
     v \in {w \in {BatchPaths(batch)[i] : i \in 1..Len(batch)} : w.t = "str"}}
  \cup {fs_write(f, PlanFileName, AgentContent, TRUE, FALSE),
        fs_delete(f, PlanFileName, FALSE)}

\* Lines 191-194: the engine calls a tool during the batch interaction.
BatchToolCall ==
  /\ pc = "batch_invoke"
  /\ tool_result = NoCall
  /\ \E call \in AgentCalls(fs, file_batches[batch_index]) :
        fs' = call.fs /\ tool_result' = call.res
  /\ UNCHANGED orchVars

\* A loop that stops at the first batch.
NextBatchPcBreak == "testing"

NextBatchPc == IF batch_index < Len(file_batches) THEN "batch_prepare" ELSE "testing"

\* Lines 196-203: the batch interaction returns its final message.
BatchReturns ==
  /\ pc = "batch_invoke"
  /\ implementation_results' =
       Append(implementation_results,
              SuccessOutcome(batch_index, file_batches[batch_index]))
  /\ calls' = Ended(calls, "returned")
  /\ batch_index' = batch_index + 1
  /\ pc' = NextBatchPc
  /\ tool_result' = NoCall
  /\ UNCHANGED <<batch_size, fs, plan_content, json_str, implementation_plan,
                 files_to_implement, file_batches, folder_structure,
                 testing_phase_result, result, raised>>

\* Lines 205-212: the batch interaction raises and the error is recorded.
BatchRaises ==
  /\ pc = "batch_invoke"
  /\ implementation_results' =
       Append(implementation_results,
              ErrorOutcome(batch_index, file_batches[batch_index]))
  /\ calls' = Ended(calls, "raised")
  /\ batch_index' = batch_index + 1
  /\ pc' = NextBatchPc
  /\ tool_result' = NoCall
  /\ UNCHANGED <<batch_size, fs, plan_content, json_str, implementation_plan,
                 files_to_implement, file_batches, folder_structure,
                 testing_phase_result, result, raised>>

\* A testing interaction started without a step limit.
TestingInvokeNoLimit ==
  /\ pc = "testing"
  /\ pc' = "testing_invoke"
  /\ calls' = Append(calls, Call("testing", 0, 0))
  /\ UNCHANGED <<tool_result, batch_size, fs, plan_content, json_str, implementation_plan,
                 files_to_implement, file_batches, batch_index, folder_structure,
                 implementation_results, testing_phase_result, result, raised>>

\* Lines 214-223: the testing interaction is started.
TestingInvoke ==
  /\ pc = "testing"
  /\ pc' = "testing_invoke"
  /\ calls' = Append(calls, Call("testing", 0, RecursionLimit))
  /\ UNCHANGED <<tool_result, batch_size, fs, plan_content, json_str, implementation_plan,
                 files_to_implement, file_batches, batch_index, folder_structure,
                 implementation_results, testing_phase_result, result, raised>>

TestFileName == <<"test_backend.py">>

\* The tool calls the engine may make in the testing interaction: it writes
\* the test file, or writes or deletes the plan file.
TestingCalls(f) ==
  {fs_write(f, TestFileName, AgentContent, TRUE, FALSE),
   fs_write(f, PlanFileName, AgentContent, TRUE, FALSE),
   fs_delete(f, PlanFileName, FALSE)}

\* Lines 221-223: the engine calls a tool during the testing interaction.
TestingToolCall ==
  /\ pc = "testing_invoke"
  /\ tool_result = NoCall
  /\ \E call \in TestingCalls(fs) : fs' = call.fs /\ tool_result' = call.res
  /\ UNCHANGED orchVars

\* Lines 225-230.
TestingReturns ==
  /\ pc = "testing_invoke"
  /\ testing_phase_result' =
       [status |-> "success", final_message |-> "final", error |-> "none"]
  /\ calls' = Ended(calls, "returned")
  /\ pc' = "return"
  /\ tool_result' = NoCall
  /\ UNCHANGED <<batch_size, fs, plan_content, json_str, implementation_plan,
                 files_to_implement, file_batches, batch_index, folder_structure,
                 implementation_results, result, raised>>

\* A testing interaction whose exception is not caught.
TestingRaisesUncaught ==
  /\ pc = "testing_invoke"
  /\ \E e \in EngineErrors :
        /\ raised' = Exc(e)
        /\ calls' = Raised(calls, e)
  /\ pc' = "raised"
  /\ tool_result' = NoCall
  /\ UNCHANGED <<batch_size, fs, plan_content, json_str, implementation_plan,
                 files_to_implement, file_batches, batch_index, folder_structure,
                 implementation_results, testing_phase_result, result>>

\* Lines 232-237.
TestingRaises ==
  /\ pc = "testing_invoke"
  /\ \E e \in EngineErrors :
        /\ testing_phase_result' =
             [status |-> "error", final_message |-> "none", error |-> e]
        /\ calls' = Raised(calls, e)
  /\ pc' = "return"
  /\ tool_result' = NoCall
  /\ UNCHANGED <<batch_size, fs, plan_content, json_str, implementation_plan,
                 files_to_implement, file_batches, batch_index, folder_structure,
                 implementation_results, result, raised>>

\* Lines 239-250: the consolidated result.
Return ==
  /\ pc = "return"
  /\ result' = [plan |-> implementation_plan, raw_response |-> plan_content,
                results |-> implementation_results,
                files_implemented |-> FilesImplemented(implementation_results),
                files_failed |-> FilesFailed(implementation_results),
                testing_phase |-> testing_phase_result]
  /\ pc' = "done"
  /\ UNCHANGED <<tool_result, batch_size, fs, plan_content, json_str, implementation_plan,
                 files_to_implement, file_batches, batch_index, folder_structure,
                 implementation_results, testing_phase_result, raised, calls>>

Next ==
  \/ PlanningInvoke
  \/ PlanningReturns
  \/ PlanningRaises
  \/ ParseStep
  \/ SavePlan
  \/ MakeBatches
  \/ BatchPrepare
  \/ BatchToolCall
  \/ BatchReturns
  \/ BatchRaises
  \/ TestingInvoke
  \/ TestingToolCall
  \/ TestingReturns
  \/ TestingRaises
  \/ Return

Spec == Init /\ [][Next]_vars

\* The run under the assumption that every engine interaction and every
\* tool call returns or raises, and that the interpreter goes on with the
\* next statement.
(***************************************************************************)
(* The script that calls mcp_fast_iterative and prints the final summary   *)
(* (src/create_backend.py 1217-1247).                                      *)
(***************************************************************************)
\* Lines 198-212: the keys of the dictionary appended for a batch.
OutcomeKeys(res) ==
  {"batch", "files", "status"} \cup (IF res.status = "error" THEN {"error"} ELSE {"result"})

\* Line 1238: the keys the line of a failed batch reads, in order.
FailedLineReads == <<"file", "error">>

\* Lines 1236-1238: the loop over the outcomes; [exc, lines], lines being
\* the batches whose line was printed.
RECURSIVE FailedFiles(_, _)
FailedFiles(results, i) ==
  IF i > Len(results) THEN [exc |-> "none", lines |-> <<>>]
  ELSE IF results[i].status # "error" THEN FailedFiles(results, i + 1)
  ELSE IF \E k \in 1..Len(FailedLineReads) : FailedLineReads[k] \notin OutcomeKeys(results[i])
       THEN [exc |-> "KeyError", lines |-> <<>>]
  ELSE [exc |-> FailedFiles(results, i + 1).exc,
        lines |-> <<results[i].batch>> \o FailedFiles(results, i + 1).lines]

\* Lines 1219-1245: what the summary prints of a result r: the lines of the
\* failed batches, and whether the Testing Phase section was reached.
MainSummary(r) ==
  LET failed == IF r.files_failed > 0 THEN FailedFiles(r.results, 1)
                ELSE [exc |-> "none", lines |-> <<>>]
  IN [exc |-> failed.exc, failed |-> failed.lines, testing_printed |-> failed.exc = "none"]

\* The script prints the summary of the result the function returned.
PrintSummary ==
  /\ pc = "done"
  /\ IF MainSummary(result).exc = "none"
     THEN pc' = "summary_done" /\ UNCHANGED raised
     ELSE pc' = "summary_raised" /\ raised' = Exc(MainSummary(result).exc)
  /\ UNCHANGED <<tool_result, batch_size, fs, plan_content, json_str, implementation_plan,
                 files_to_implement, file_batches, batch_index, folder_structure,
                 implementation_results, testing_phase_result, result, calls>>

NextMain == Next \/ PrintSummary

SpecMain == Init /\ [][NextMain]_vars

\* The planning responses that are the JSON text of a plan and nothing else.
PlainResponses == {json_dump(v) : v \in GoodPlans \cup OddPlans}

PlanningReturnsPlain == PlanningReturnsFrom(PlainResponses)

NextFair ==
  \/ PlanningInvoke
  \/ PlanningReturnsPlain
  \/ PlanningRaises
  \/ ParseStep
  \/ SavePlan
  \/ MakeBatches
  \/ BatchPrepare
  \/ BatchToolCall
  \/ BatchReturns
  \/ BatchRaises
  \/ TestingInvoke
  \/ TestingToolCall
  \/ TestingReturns
  \/ TestingRaises
  \/ Return

\* From the parsed plan on, each statement of the orchestrator that can run
\* does run, and each implementation and testing interaction that was
\* started returns or raises.  The engine is not obliged to call a tool.
Fairness ==
  /\ WF_vars(SavePlan)
  /\ WF_vars(MakeBatches)
  /\ WF_vars(BatchPrepare)
  /\ WF_vars(BatchReturns \/ BatchRaises)
  /\ WF_vars(TestingInvoke)
  /\ WF_vars(TestingReturns \/ TestingRaises)
  /\ WF_vars(Return)

SpecFair == Init /\ [][NextFair]_vars /\ Fairness

(***************************************************************************)
(* Tool calls on a workspace: the specification of the file tools.         *)
(***************************************************************************)
ToolPaths ==
  {<<"a">>, <<"d">>, <<"d", "/", "a">>, <<".">>, <<".", ".", "/", "o">>,
   <<"l", "/", "a">>}

\* A workspace that holds a symbolic link to a directory outside the root.
LinkedFs ==
  [q \in {<<>>, OutsidePath, RootPath, Append(RootPath, <<"l">>)} |->
     IF q = Append(RootPath, <<"l">>) THEN LinkNode(OutsidePath) ELSE DirNode]

InitTools ==
  /\ pc = "tools"
  /\ batch_size = 1
  /\ fs \in {LinkedFs, EmptyFs}
  /\ plan_content = <<>>
  /\ json_str = <<>>
  /\ implementation_plan = NullV
  /\ files_to_implement = NullV
  /\ file_batches = <<>>
  /\ batch_index = 0
  /\ folder_structure = {}
  /\ implementation_results = <<>>
  /\ testing_phase_result = NoTesting
  /\ result = NoResult
  /\ raised = NoExc
  /\ calls = <<>>
  /\ tool_result = NoCall

\* The agent has one tool call at a time: it calls a tool when the result
\* of the call before has come back to it.
Apply(call) ==
  /\ tool_result = NoCall
  /\ fs' = call.fs
  /\ tool_result' = call.res
  /\ UNCHANGED orchVars

ContentAfter(f, path, append) ==
  IF append /\ _resolve(f, path).ok /\ Exists(f, _resolve(f, path).p)
  THEN Len(f[_resolve(f, path).p].content) + 1 ELSE 1

\* What the agent writes with fs_write.
WrittenContent == <<"x">>

FsWrite ==
  \E path \in ToolPaths, create_dirs \in BOOLEAN, append \in BOOLEAN :
     /\ tool_result = NoCall
     /\ ContentAfter(WorkspaceInit(fs), path, append) <= MaxContent
     /\ Apply(fs_write(fs, path, WrittenContent, create_dirs, append))

FsRead == \E path \in ToolPaths : Apply(fs_read(fs, path))

\* The paths and the number of paths fs_read_files is called with.
ReadPaths == {<<"a">>, <<"d">>, <<"d", "/", "a">>, <<".", ".", "/", "o">>}

MaxReadPaths == 2

FsReadFiles ==
  \E paths \in UNION {[1..n -> ReadPaths] : n \in 0..MaxReadPaths} :
     Apply(fs_read_files(fs, paths))

FsMkdir == \E path \in ToolPaths, exist_ok \in BOOLEAN : Apply(fs_mkdir(fs, path, exist_ok))

FsDelete == \E path \in ToolPaths, recursive \in BOOLEAN : Apply(fs_delete(fs, path, recursive))

FsStat == \E path \in ToolPaths : Apply(fs_stat(fs, path))

\* The depth of the deepest path the tools are called with: moves that
\* would take the tree below the root deeper are left out.
ToolDepth ==
  CHOOSE n \in 0..MaxPathLen :
     /\ \E p \in ToolPaths : Len(Names(p, 1, <<>>, <<>>)) = n
     /\ \A p \in ToolPaths : Len(Names(p, 1, <<>>, <<>>)) <= n

Shallow(f) == \A q \in DOMAIN f : IsPrefix(RootPath, q) => Len(q) <= Len(RootPath) + ToolDepth

MoveSources == {<<"a">>, <<"d", "/", "a">>, <<"l", "/", "a">>, <<".", ".", "/", "o">>}

MoveTargets == {<<"a">>, <<"d">>, <<"d", "/", "a">>, <<".", ".", "/", "o">>}

FsMove ==
  \E src \in MoveSources, dst \in MoveTargets, overwrite \in BOOLEAN :
     /\ tool_result = NoCall
     /\ Shallow(fs_move(fs, src, dst, overwrite).fs)
     /\ Apply(fs_move(fs, src, dst, overwrite))

\* The command tool on the workspace the file tools work on.
ToolCommands == {<<"git">>, <<"rm">>}

\* The outcomes of a process that writes nothing.
SilentProcs == {pr \in ProcOutcomes : pr.stdout = <<>> /\ pr.stderr = <<>>}

ToolProcs == {pr \in SilentProcs : pr.kind = "exit" /\ pr.code = 0}

CmdRunTool ==
  \E command \in ToolCommands, workdir \in ToolPaths, proc \in ToolProcs :
     Apply(cmd_run(fs, command, workdir, TRUE, MaxOutput, proc))

\* The result of the call, a string or an exception, reaches the agent.
ToolReturns ==
  /\ tool_result # NoCall
  /\ tool_result' = NoCall
  /\ UNCHANGED fs
  /\ UNCHANGED orchVars

NextTools ==
  FsWrite \/ FsRead \/ FsReadFiles \/ FsMkdir \/ FsDelete \/ FsStat \/ FsMove \/ CmdRunTool
    \/ ToolReturns

SpecTools == InitTools /\ [][NextTools]_vars

(***************************************************************************)
(* Calls of the command tool: the specification of the command executor.   *)
(***************************************************************************)
Commands ==
  {<<"git">>, <<" ", "git", " ">>, <<"rm">>, <<" ", "rm", " ">>,
   <<"git", " ", "rm">>, <<"python">>, <<>>}

Workdirs == {<<".">>, <<"d">>, <<"a">>, <<"m">>, <<".", ".", "/", "o">>, <<"l">>}

\* A workspace with a directory d, a regular file a and a link l to the
\* outside.
CommandFs ==
  [q \in DOMAIN LinkedFs \cup {Append(RootPath, <<"d">>), Append(RootPath, <<"a">>)} |->
     IF q \in DOMAIN LinkedFs THEN LinkedFs[q]
     ELSE IF q = Append(RootPath, <<"a">>) THEN FileNode(<<"x">>) ELSE DirNode]

InitCmd ==
  /\ pc = "tools"
  /\ batch_size = 1
  /\ fs \in {CommandFs, EmptyFs}
  /\ plan_content = <<>>
  /\ json_str = <<>>
  /\ implementation_plan = NullV
  /\ files_to_implement = NullV
  /\ file_batches = <<>>
  /\ batch_index = 0
  /\ folder_structure = {}
  /\ implementation_results = <<>>
  /\ testing_phase_result = NoTesting
  /\ result = NoResult
  /\ raised = NoExc
  /\ calls = <<>>
  /\ tool_result = NoCall

\* cmd_run with every command and working directory, the process silent.
CmdRun ==
  \E command \in Commands, workdir \in Workdirs, capture_stderr \in BOOLEAN,
     proc \in SilentProcs :
     Apply(cmd_run(fs, command, workdir, capture_stderr, MaxOutput, proc))

\* cmd_run with an allow-listed command in a directory of the workspace,
\* with every output and every cap.
CmdRunOutput ==
  \E workdir \in {<<".">>, <<"d">>}, capture_stderr \in BOOLEAN,
     max_output_bytes \in 0..MaxOutput, proc \in ProcOutcomes :
     Apply(cmd_run(fs, <<"git">>, workdir, capture_stderr, max_output_bytes, proc))

NextCmd == CmdRun \/ CmdRunOutput \/ ToolReturns

SpecCmd == InitCmd /\ [][NextCmd]_vars

(***************************************************************************)
(* Calls of Workspace._resolve on every short path string.                 *)
(***************************************************************************)
PathAlphabet == {"/", ".", "w", "a", "l"}

PathStrings == UNION {[1..n -> PathAlphabet] : n \in 0..MaxPathLen}

\* A workspace whose link l points to a directory inside the root.
InnerLinkFs ==
  [q \in DOMAIN CommandFs |->
     IF q = Append(RootPath, <<"l">>) THEN LinkNode(Append(RootPath, <<"d">>))
     ELSE CommandFs[q]]

InitResolve ==
  /\ pc = "tools"
  /\ batch_size = 1
  /\ fs \in {CommandFs, InnerLinkFs, WorkspaceInit(EmptyFs)}
  /\ plan_content = <<>>
  /\ json_str = <<>>
  /\ implementation_plan = NullV
  /\ files_to_implement = NullV
  /\ file_batches = <<>>
  /\ batch_index = 0
  /\ folder_structure = {}
  /\ implementation_results = <<>>
  /\ testing_phase_result = NoTesting
  /\ result = NoResult
  /\ raised = NoExc
  /\ calls = <<>>
  /\ tool_result = NoCall

\* ws._resolve(path) is called: it returns a path or raises WorkspaceError.
ResolveCall ==
  \E path \in PathStrings :
     /\ tool_result = NoCall
     /\ tool_result' =
          IF _resolve(fs, path).ok
          THEN Says("_resolve", "none", [path |-> path], _resolve(fs, path).p)
          ELSE Raises("_resolve", "WorkspaceError", [path |-> path])
     /\ UNCHANGED fs
     /\ UNCHANGED orchVars

NextResolve == ResolveCall \/ ToolReturns

SpecResolve == InitResolve /\ [][NextResolve]_vars

(***************************************************************************)
(* The listing tool on workspaces that hold node_modules directories.      *)
(***************************************************************************)
NodeModules == <<"node_modules">>

\* The paths a workspace may hold below its root: x is a file, the others
\* are directories.
ListTree ==
  {<<NodeModules>>, <<NodeModules, <<"x">>>>, << <<"d">> >>, << <<"d">>, <<"x">> >>,
   << <<"d">>, NodeModules>>, << <<"d">>, NodeModules, <<"x">> >>}

ListFs(S) ==
  [q \in {<<>>, OutsidePath, RootPath} \cup {RootPath \o t : t \in S} |->
     IF q # <<>> /\ q[Len(q)] = <<"x">> THEN FileNode(<<"x">>) ELSE DirNode]

ListTrees == {S \in SUBSET ListTree : \A t \in S : Len(t) > 1 => Parent(t) \in S}

ListPaths ==
  {<<".">>, <<"d">>, <<"node_modules">>, <<"d", "/", "node_modules">>,
   <<"/", "w", "/", "d">>, <<".", ".", "/", "o">>}

InitList ==
  /\ pc = "tools"
  /\ batch_size = 1
  /\ fs \in {ListFs(S) : S \in ListTrees}
  /\ plan_content = <<>>
  /\ json_str = <<>>
  /\ implementation_plan = NullV
  /\ files_to_implement = NullV
  /\ file_batches = <<>>
  /\ batch_index = 0
  /\ folder_structure = {}
  /\ implementation_results = <<>>
  /\ testing_phase_result = NoTesting
  /\ result = NoResult
  /\ raised = NoExc
  /\ calls = <<>>
  /\ tool_result = NoCall

FsList == \E path \in ListPaths, recursive \in BOOLEAN : Apply(fs_list(fs, path, recursive))

NextList == FsList \/ ToolReturns

SpecList == InitList /\ [][NextList]_vars

(***************************************************************************)
(* Calls of fs_read_function_definitions on a source file.                 *)
(***************************************************************************)
\* The bound of the number of definitions at the top level of the file.
MaxDefs == 2

DefKinds == {"FunctionDef", "AsyncFunctionDef", "ClassDef"}

TopNames == <<"f", "g", "k", "m">>

\* A definition nested in another one.
InnerDefs == {AstNode(k, "h", TRUE, <<>>) : k \in DefKinds}

\* The i-th definition at the top level: empty or with one definition in it.
TopDefs(i) ==
  {AstNode(k, TopNames[i], d, b) :
     k \in DefKinds, d \in BOOLEAN, b \in {<<>>} \cup {<<n>> : n \in InnerDefs}}

\* The files of n definitions at the top level.
RECURSIVE TreesOf(_)
TreesOf(n) ==
  IF n = 0 THEN {<<>>} ELSE {Append(t, d) : t \in TreesOf(n - 1), d \in TopDefs(n)}

SourceTrees ==
  UNION {TreesOf(n) : n \in 0..MaxDefs} \cup {<<AstNode("SyntaxError", "", FALSE, <<>>)>>}

SourceFs(tree) ==
  [q \in {<<>>, OutsidePath, RootPath, Append(RootPath, <<"d">>), Append(RootPath, <<"a">>)} |->
     IF q = Append(RootPath, <<"a">>) THEN FileNode(tree) ELSE DirNode]

SourcePaths == {<<"a">>, <<"d">>, <<"b">>, <<".", ".", "/", "o">>}

InitAst ==
  /\ pc = "tools"
  /\ batch_size = 1
  /\ fs \in {SourceFs(t) : t \in SourceTrees}
  /\ plan_content = <<>>
  /\ json_str = <<>>
  /\ implementation_plan = NullV
  /\ files_to_implement = NullV
  /\ file_batches = <<>>
  /\ batch_index = 0
  /\ folder_structure = {}
  /\ implementation_results = <<>>
  /\ testing_phase_result = NoTesting
  /\ result = NoResult
  /\ raised = NoExc
  /\ calls = <<>>
  /\ tool_result = NoCall

FsReadFunctionDefinitions ==
  \E path \in SourcePaths : Apply(fs_read_function_definitions(fs, path))

NextAst == FsReadFunctionDefinitions \/ ToolReturns

SpecAst == InitAst /\ [][NextAst]_vars

(***************************************************************************)
(* Properties of the sandbox and of the command executor.                  *)
(***************************************************************************)
\* The place a path denotes once the operating system has followed its
\* links lies in the workspace root.
InsideRoot(f, p) == IsPrefix(RootPath, Realpath(f, p, 1, <<>>))

\* C1: Workspace._resolve either returns a path that is the root or lies
\* under it, or raises WorkspaceError; it never returns a path outside.
C1_Containment ==
  tool_result.tool = "_resolve" =>
    \/ tool_result.raised = "WorkspaceError"
    \/ /\ tool_result.raised = "none"
       /\ IsPrefix(RootPath, tool_result.detail)
       /\ InsideRoot(fs, tool_result.detail)

\* A path through the link that leaves the root is refused.
C1_Witness ==
  /\ tool_result.tool = "_resolve"
  /\ tool_result.args.path = <<"l", "/", "a">>
  /\ fs = CommandFs
  /\ tool_result.raised = "WorkspaceError"

NameAllowed(command) == \E n \in ALLOWED_COMMANDS : Strip(command) = <<n>>

\* C2: a command whose stripped name is not allow-listed is refused: the
\* call returns the refusal, resolves no working directory and runs no
\* process, whatever the working directory is.
C2_RefusedBeforeResolveAndSpawn ==
  (tool_result.tool = "cmd_run" /\ ~NameAllowed(tool_result.args.command)) =>
    /\ tool_result.raised = "none"
    /\ tool_result.detail.status = "Failure"
    /\ tool_result.detail.error_line = "not allowed"
    /\ tool_result.steps = <<"check">>

\* A command that is not allow-listed, with a working directory outside the
\* root, is refused and not answered with WorkspaceError.
C2_Witness ==
  /\ tool_result.tool = "cmd_run"
  /\ tool_result.args.command = <<"git", " ", "rm">>
  /\ tool_result.args.workdir = <<".", ".", "/", "o">>
  /\ tool_result.raised = "none"
  /\ tool_result.steps = <<"check">>

\* The path arguments of a tool call.
PathArgsOf(res) == {res.args[k] : k \in DOMAIN res.args \cap {"path", "src", "dst", "workdir"}}

\* A call on filesystem f is a boundary violation: a path argument resolves
\* outside the root, or the command is not allow-listed.
BoundaryViolation(f, res) ==
  \/ \E p \in PathArgsOf(res) : ~_resolve(WorkspaceInit(f), p).ok
  \/ res.tool = "cmd_run" /\ ~NameAllowed(res.args.command)

Refused(res) ==
  \/ res.raised = "WorkspaceError"
  \/ res.raised = "none" /\ res.tool = "cmd_run" /\ res.detail.error_line = "not allowed"

NoSpawn(res) == \A i \in 1..Len(res.steps) : res.steps[i] # "run"

ToolCall == tool_result = NoCall /\ tool_result' # NoCall

C3_ToolsNeverRaise ==
  (tool_result.tool = "cmd_run" /\ _resolve(fs, tool_result.args.workdir).ok) =>
    tool_result.raised = "none"

\* C12: every string a tool returns begins with a success marker or an
\* error marker.
C12_MarkerPrefix ==
  (tool_result.tool # "none" /\ tool_result.raised = "none") =>
    tool_result.marker \in {"Success", "Error"}

\* C13: the report cmd_run returns for a program name outside the
\* allow-list contains the list of the allowed program names.
C13_RefusalListsAllowed ==
  (tool_result.tool = "cmd_run" /\ tool_result.raised = "none"
     /\ ~NameAllowed(tool_result.args.command)) =>
    tool_result.detail.allowed_shown

Spawned(res) == \E i \in 1..Len(res.steps) : res.steps[i] = "spawn"

\* C14: a command that outlives timeout_sec is terminated and the call
\* returns a timeout report with ok false: it is not reported as a success,
\* the process is not left running, and the call returns.
C14_TimeoutKilledAndReported ==
  (tool_result.tool = "cmd_run" /\ Spawned(tool_result)
     /\ tool_result.args.proc.kind = "timeout") =>
    /\ tool_result.raised = "none"
    /\ tool_result.detail.status = "Failure"
    /\ tool_result.detail.error_line = "Timeout"
    /\ tool_result.steps[Len(tool_result.steps)] = "kill"

C14_Witness ==
  /\ tool_result.tool = "cmd_run" /\ Spawned(tool_result)
  /\ tool_result.args.proc.kind = "timeout"
  /\ tool_result.args.command = <<" ", "git", " ">>
  /\ tool_result.args.workdir = <<"d">>
  /\ tool_result.detail.error_line = "Timeout"

\* The bytes subprocess.run captured in a call.
Captured(args) ==
  IF args.capture_stderr THEN args.proc.stdout \o args.proc.stderr ELSE args.proc.stdout

Exited(res) == res.tool = "cmd_run" /\ res.steps # <<>> /\ res.steps[Len(res.steps)] = "exit"

\* str.encode("utf-8").
RECURSIVE Encode(_)
Encode(c) ==
  IF c = <<>> THEN <<>>
  ELSE (CASE c[1] = "c1c2" -> <<"c1", "c2">>
          [] c[1] = "fffd" -> <<"ef", "bf", "bd">>
          [] OTHER -> <<c[1]>>) \o Encode(Tail(c))

Prefix(out, n) == IF Len(out) > n THEN SubSeq(out, 1, n) ELSE out

\* C15 as claimed: the output _run_command reports is, byte for byte, the
\* first max_output_bytes bytes of the captured output with truncated true
\* when the output is longer than the cap, and the whole captured output
\* with truncated false when it is not.
C15_OutputByteIdentical ==
  Exited(tool_result) =>
    /\ Encode(tool_result.result.output) =
         Prefix(Captured(tool_result.args), tool_result.args.max_output_bytes)
    /\ tool_result.result.truncated =
         (Len(Captured(tool_result.args)) > tool_result.args.max_output_bytes)

\* C15 as amended: the output _run_command reports is the UTF-8 decoding,
\* undecodable bytes replaced, of the first max_output_bytes bytes of the
\* captured output with truncated true when the output is longer than the
\* cap, and of the whole captured output with truncated false when it is
\* not.
C15_OutputDecodedPrefix ==
  Exited(tool_result) =>
    /\ tool_result.result.output =
         decode(Prefix(Captured(tool_result.args), tool_result.args.max_output_bytes))
    /\ tool_result.result.truncated =
         (Len(Captured(tool_result.args)) > tool_result.args.max_output_bytes)

\* Two bytes of output and a cap of one: one byte reported, truncated; and
\* the cut falls inside a character.
C15_Witness ==
  /\ Exited(tool_result)
  /\ tool_result.args.proc.stdout = <<"c1", "c2">>
  /\ ~tool_result.args.capture_stderr
  /\ tool_result.args.max_output_bytes = 1
  /\ tool_result.args.workdir = <<"d">>
  /\ tool_result.result.truncated
  /\ tool_result.result.output = <<"fffd">>

\* Why a cmd_run call on filesystem f failed: the program is not
\* allow-listed, its binary is not found, or the process timed out.
Cause(f, args) ==
  LET wd == _resolve(f, args.workdir)
      inDir == wd.ok /\ Exists(f, wd.p) /\ f[wd.p].kind = "dir"
  IN IF ~NameAllowed(args.command) THEN "not allowed"
     ELSE IF inDir /\ args.proc.kind = "notfound" THEN "not found"
     ELSE IF inDir /\ args.proc.kind = "timeout" THEN "timed out"
     ELSE "other"

Causes == {"not allowed", "not found", "timed out"}

LabelOf(cause) ==
  CASE cause = "not allowed" -> "not allowed"
    [] cause = "not found" -> "Command not found"
    [] cause = "timed out" -> "Timeout"

\* C16: the reports for a program that is not allow-listed, a binary that
\* is not found and a process that timed out each carry the label of their
\* own cause, in the result of _run_command and in the string of cmd_run,
\* and differ from the report of every call that fails for another of the
\* three causes.
C16_ThreeFailuresDistinct ==
  (tool_result.tool = "cmd_run" /\ Cause(fs, tool_result.args) \in Causes) =>
    /\ tool_result.raised = "none"
    /\ ~tool_result.result.ok
    /\ tool_result.result.error = LabelOf(Cause(fs, tool_result.args))
    /\ tool_result.detail.error_line = LabelOf(Cause(fs, tool_result.args))
    /\ \A command \in Commands, workdir \in Workdirs, proc \in SilentProcs :
          LET other == cmd_run(fs, command, workdir, TRUE, MaxOutput, proc).res
          IN (Cause(fs, other.args) \in Causes
                /\ Cause(fs, other.args) # Cause(fs, tool_result.args)) =>
               /\ other.result.error # tool_result.result.error
               /\ other.detail # tool_result.detail

C16_Witness ==
  /\ tool_result.tool = "cmd_run"
  /\ Cause(fs, tool_result.args) = "not found"
  /\ tool_result.args.command = <<"python">>
  /\ tool_result.detail.error_line = "Command not found"

\* A cmd_run call whose process was spawned and exited with a non-zero code.
ExitedNonZero(res) ==
  /\ res.tool = "cmd_run"
  /\ Exited(res)
  /\ res.args.proc.code # 0

\* C17: a spawned process that exits with a non-zero code never makes
\* _run_command or cmd_run raise: the result of _run_command has ok false
\* and holds the exit code, the working directory relative to the root, the
\* captured output and the truncation flag, and the report of cmd_run shows
\* the failure, the exit code, the working directory, the output and the
\* truncation.
C17_NonZeroExitReported ==
  ExitedNonZero(tool_result) =>
    LET args == tool_result.args
        r == tool_result.result
        cut == Truncate(Captured(args), args.max_output_bytes)
    IN /\ tool_result.raised = "none"
       /\ ~r.ok /\ r.has_code /\ r.code = args.proc.code
       /\ r.has_cwd /\ r.cwd = RelTo(_resolve(fs, args.workdir).p, RootPath)
       /\ r.output = decode(cut.out)
       /\ r.truncated = cut.truncated
       /\ tool_result.detail.status = "Failure"
       /\ tool_result.detail.code_shown /\ tool_result.detail.code = r.code
       /\ tool_result.detail.cwd = r.cwd
       /\ tool_result.detail.output = Strip(r.output)
       /\ tool_result.detail.truncated_line = r.truncated

\* C32: whenever the captured output of a command is longer than the byte
\* cap, the report cmd_run returns has the line that says the output was
\* truncated, for every cap from 0 on.
C32_TruncationAlwaysFlagged ==
  (Exited(tool_result)
     /\ Len(Captured(tool_result.args)) > tool_result.args.max_output_bytes) =>
    tool_result.detail.truncated_line

\* C36: _run_command reports Command not found only when the binary of the
\* program cannot be found: a call with an allow-listed, installed program
\* and a working directory that does not exist inside the root is not
\* reported so.
C36_NotFoundMeansBinaryMissing ==
  (tool_result.tool = "cmd_run" /\ tool_result.raised = "none"
     /\ tool_result.result.error = "Command not found") =>
    tool_result.args.proc.kind = "notfound"

\* The call of tool_result made again with a process that differs only in
\* writing nothing to standard error.
WithoutStderr(f, args) ==
  cmd_run(f, args.command, args.workdir, args.capture_stderr, args.max_output_bytes,
          [args.proc EXCEPT !.stderr = <<>>]).res

\* C33: with capture_stderr true the standard error of the process is part
\* of the captured output that is reported; with capture_stderr false the
\* output reported is the standard output alone and the standard error is
\* still present in the result of _run_command and in the report of
\* cmd_run, which therefore differ from those of a process that wrote no
\* standard error.
C33_StderrMergedOrSeparate ==
  (Exited(tool_result) /\ tool_result.args.proc.stderr # <<>>) =>
    LET args == tool_result.args
        r == tool_result.result
        quiet == WithoutStderr(fs, args)
    IN /\ args.capture_stderr =>
            r.output = decode(Truncate(args.proc.stdout \o args.proc.stderr,
                                       args.max_output_bytes).out)
       /\ ~args.capture_stderr =>
            /\ r.output = decode(Truncate(args.proc.stdout, args.max_output_bytes).out)
            /\ r # quiet.result
            /\ tool_result.detail # quiet.detail

\* Every path a tool call was given.
AllPathArgs(res) ==
  PathArgsOf(res)
    \cup (IF "paths" \in DOMAIN res.args
          THEN {res.args.paths[i] : i \in 1..Len(res.args.paths)} ELSE {})

\* A call on filesystem f with a path that resolves outside the root; for
\* cmd_run, of an allow-listed program.
EscapingCall(f, res) ==
  /\ \E p \in AllPathArgs(res) : ~_resolve(WorkspaceInit(f), p).ok
  /\ res.tool = "cmd_run" => NameAllowed(res.args.command)

\* C25: a path-taking tool that is given a path escaping the root refuses
\* the call by raising WorkspaceError and returns no error string.
C25_EscapeRaisesWorkspaceError ==
  [][(ToolCall /\ EscapingCall(fs, tool_result')) =>
       tool_result'.raised = "WorkspaceError"]_vars

\* The directories named node_modules below base that a recursive walk
\* from base reaches.
NodeModulesDirs(f, base) ==
  {q \in RGlob(f, base) : q[Len(q)] = NodeModules /\ f[q].kind = "dir"}

\* C26: in the output of a recursive fs_list, every directory named
\* node_modules below the listed path has its own entry and nothing below
\* it has one.
C26_NodeModulesCollapsed ==
  (tool_result.tool = "fs_list" /\ tool_result.marker = "Success"
     /\ tool_result.args.recursive) =>
    \A q \in NodeModulesDirs(fs, _resolve(fs, tool_result.args.path).p) :
       /\ [type |-> "d", rel |-> RelTo(q, RootPath)] \in tool_result.detail
       /\ \A e \in tool_result.detail :
             ~(IsPrefix(RelTo(q, RootPath), e.rel) /\ e.rel # RelTo(q, RootPath))

\* The path resolves to a regular file of the workspace.
Readable(f, path) ==
  LET r == _resolve(f, path)
  IN r.ok /\ Exists(f, r.p) /\ f[r.p].kind = "file"

\* C27: fs_read_files returns one report for each requested path, in the
\* order of the request; a path that is missing, unreadable or escapes the
\* root gets an error report and every other path still gets its own: the
\* content of each readable file is reported.
C27_OneReportPerPath ==
  tool_result.tool = "fs_read_files" =>
    LET paths == tool_result.args.paths
        reports == tool_result.detail
    IN /\ tool_result.raised = "none"
       /\ Len(reports) = Len(paths)
       /\ \A i \in 1..Len(paths) :
             /\ reports[i].path = paths[i]
             /\ IF Readable(fs, paths[i])
                THEN /\ reports[i].kind = "Content of"
                     /\ reports[i].content = fs[_resolve(fs, paths[i]).p].content
                ELSE ReportMarker(reports[i]) = "Error"

\* An escaping path first and a file of the workspace second: the first is
\* reported as an error and the second with its content.
C27_Witness ==
  /\ tool_result.tool = "fs_read_files"
  /\ tool_result.args.paths = <<<<".", ".", "/", "o">>, <<"a">>>>
  /\ tool_result.detail[1].detail = "WorkspaceError"
  /\ tool_result.detail[2].kind = "Content of"
  /\ tool_result.detail[2].content = <<"x">>

\* What C29 says of a successful write and of a parent that is created, for
\* a call on filesystem f that left filesystem g.
WriteToggles(f, g, res) ==
  LET p == _resolve(f, res.args.path).p
      old == IF Exists(f, p) THEN f[p].content ELSE <<>>
      missing == ~Exists(f, Parent(p)) /\ ~AncestorIsFile(f, p)
  IN /\ res.raised = "none"
     /\ res.marker = "Success" =>
          /\ g[p].kind = "file"
          /\ g[p].content = (IF res.args.append THEN old ELSE <<>>) \o WrittenContent
     /\ (res.args.create_dirs /\ missing) =>
          /\ res.marker = "Success"
          /\ g[Parent(p)] = DirNode
     /\ (~res.args.create_dirs /\ missing) => res.marker = "Error"

MissingParentRefused(f, res) ==
  LET p == _resolve(f, res.args.path).p
  IN ~res.args.create_dirs /\ ~Exists(f, Parent(p)) /\ ~AncestorIsFile(f, p)

WriteCall ==
  /\ ToolCall /\ tool_result'.tool = "fs_write"
  /\ _resolve(WorkspaceInit(fs), tool_result'.args.path).ok

Below(f, p) == {q \in DOMAIN f : IsPrefix(p, q) /\ q # p}

\* C30: fs_delete without recursive refuses a directory that is not empty
\* with an error string and leaves it and all below it unchanged, and
\* deletes a file or an empty directory; with recursive it removes a
\* directory that is not empty together with all below it.
C30_DeleteRespectsRecursive ==
  [][(ToolCall /\ tool_result'.tool = "fs_delete"
        /\ _resolve(WorkspaceInit(fs), tool_result'.args.path).ok
        /\ Exists(WorkspaceInit(fs), _resolve(WorkspaceInit(fs), tool_result'.args.path).p)) =>
       LET f == WorkspaceInit(fs)
           p == _resolve(f, tool_result'.args.path).p
           recursive == tool_result'.args.recursive
           full == f[p].kind = "dir" /\ Below(f, p) # {}
       IN /\ tool_result'.raised = "none"
          /\ (full /\ ~recursive) =>
               tool_result'.marker = "Error" /\ fs' = f
          /\ (~full \/ recursive) =>
               /\ tool_result'.marker = "Success"
               /\ DOMAIN fs' = DOMAIN f \ ({p} \cup Below(f, p))
               /\ \A q \in DOMAIN fs' : fs'[q] = f[q]]_vars

\* C31: whenever fs_move returns an error string the filesystem is as it
\* was: source and destination keep their content and no directory has been
\* created.  The workspace root, which every tool call creates when it is
\* missing, is not counted as a change here.
C31_FailedMoveChangesNothing ==
  [][(ToolCall /\ tool_result'.tool = "fs_move" /\ tool_result'.raised = "none"
        /\ tool_result'.marker = "Error") =>
       fs' = WorkspaceInit(fs)]_vars

\* C38: after a tool call whose path arguments all resolve inside the
\* workspace, the workspace root is still there as a directory: no tool
\* removes or moves it.
C38_RootSurvivesToolCalls ==
  [][(ToolCall /\ \A p \in AllPathArgs(tool_result') : _resolve(WorkspaceInit(fs), p).ok) =>
       (Exists(fs', RootPath) /\ fs'[RootPath].kind = "dir")]_vars

(***************************************************************************)
(* Properties of the orchestrator.                                         *)
(***************************************************************************)
\* The planning response has gone through the parser (lines 130-147).
Parsed == calls # <<>> /\ calls[1].outcome = "returned" /\ pc # "parse"

Batched == batch_index >= 1

RECURSIVE Concat(_, _)
Concat(bs, k) == IF k > Len(bs) THEN <<>> ELSE bs[k] \o Concat(bs, k + 1)

CeilDiv(n, b) == (n + b - 1) \div b

WellFormedFiles(files) ==
  files.t = "arr" /\ \A i \in 1..Len(files.items) : EntryError(files.items[i]) = "none"

PlanSaved == Exists(fs, PlanPath)

\* C4: once the planning response has been parsed into a plan, the run never
\* ends by raising, whatever the batch size is.  Stated for the runs whose
\* plan file was written and whose file list is a list of objects with path
\* and description; the claim covers more.
C4_NeverRaisesOncePlanParsed ==
  (implementation_plan.t = "obj" /\ PlanSaved /\ WellFormedFiles(files_to_implement))
    => pc # "raised"

RaisedBatches ==
  {calls[i].batch : i \in {j \in 1..Len(calls) :
      calls[j].phase = "implementation" /\ calls[j].outcome = "raised"}}

RECURSIVE SumBatchSizes(_, _, _)
SumBatchSizes(bs, S, k) ==
  IF k > Len(bs) THEN 0
  ELSE (IF k \in S THEN Len(bs[k]) ELSE 0) + SumBatchSizes(bs, S, k + 1)

\* C5: in the final result every batch has an outcome, files_failed is the
\* number of files of the batches whose interaction raised, and
\* files_implemented is the number of files of the other batches.
C5_PartialFailureAggregation ==
  pc = "done" =>
    /\ Len(result.results) = Len(file_batches)
    /\ \A k \in 1..Len(file_batches) :
          /\ result.results[k].batch = k
          /\ result.results[k].status = "error" <=> k \in RaisedBatches
    /\ result.files_failed = SumBatchSizes(file_batches, RaisedBatches, 1)
    /\ result.files_implemented =
         SumBatchSizes(file_batches, (1..Len(file_batches)) \ RaisedBatches, 1)

\* Three files, batch_size 2, the first batch raised and the second returned:
\* files_implemented = 1 and files_failed = 2.
C5_Witness ==
  /\ pc = "done" /\ batch_size = 2
  /\ Len(file_batches) = 2 /\ Len(file_batches[1]) = 2 /\ Len(file_batches[2]) = 1
  /\ RaisedBatches = {1}
  /\ result.files_implemented = 1 /\ result.files_failed = 2

\* C6: for a list of N files and batch_size B >= 1 there are ceil(N/B)
\* batches, each of B files except the last, which holds between 1 and B, and
\* their concatenation is the file list.
C6_BatchPartition ==
  (Batched /\ batch_size >= 1 /\ files_to_implement.t = "arr") =>
    LET n == Len(files_to_implement.items)
        m == Len(file_batches)
    IN /\ m = CeilDiv(n, batch_size)
       /\ \A k \in 1..m :
             /\ k < m => Len(file_batches[k]) = batch_size
             /\ Len(file_batches[k]) >= 1 /\ Len(file_batches[k]) <= batch_size
       /\ Concat(file_batches, 1) = files_to_implement.items

C6_Witness ==
  /\ Batched /\ batch_size = 2 /\ files_to_implement.t = "arr"
  /\ Len(files_to_implement.items) = 3
  /\ Len(file_batches) = 2 /\ Len(file_batches[2]) = 1

PhaseRank(ph) ==
  CASE ph = "planning" -> 1 [] ph = "implementation" -> 2 [] OTHER -> 3

CallsOf(ph) == {i \in 1..Len(calls) : calls[i].phase = ph}

\* C7: the planning interaction is the first and only one of its kind, the
\* interactions run one at a time in the order planning, batches in
\* ascending order, testing; the testing interaction starts only when every
\* batch has its outcome, and the result is returned only after the testing
\* interaction has returned or raised.
C7_PhaseOrder ==
  /\ pc = "start" <=> calls = <<>>
  /\ calls # <<>> => CallsOf("planning") = {1}
  /\ \A i \in 1..Len(calls) : i < Len(calls) => calls[i].outcome # "running"
  /\ \A i, j \in 1..Len(calls) :
        i < j => /\ PhaseRank(calls[i].phase) <= PhaseRank(calls[j].phase)
                 /\ calls[j].phase = "implementation" => calls[i].batch < calls[j].batch
  /\ pc \in {"planning", "batch_invoke", "testing_invoke"}
       <=> (calls # <<>> /\ calls[Len(calls)].outcome = "running")
  /\ CallsOf("implementation") # {} => calls[1].outcome = "returned"
  /\ Cardinality(CallsOf("testing")) <= 1
  /\ CallsOf("testing") # {} =>
        /\ Len(implementation_results) = Len(file_batches)
        /\ Cardinality(CallsOf("implementation")) = Len(file_batches)
  /\ pc = "done" =>
        /\ CallsOf("testing") = {Len(calls)}
        /\ calls[Len(calls)].outcome \in {"returned", "raised"}
        /\ result.testing_phase.status \in {"success", "error"}

C7_Witness ==
  /\ pc = "done" /\ Len(calls) = 5
  /\ calls[3].outcome = "raised" /\ calls[5].outcome = "raised"

\* C8: when no JSON object is found, the JSON text does not parse, or the
\* plan has no usable files list, the run ends with a RuntimeError that
\* carries the raw planning response; no plan file is written and no
\* implementation or testing interaction is started.
C8_BadPlanAbortsWithRawText ==
  (Parsed /\ ParsePlan(plan_content).exc # "none") =>
    /\ pc = "raised"
    /\ raised.type = "RuntimeError"
    /\ raised.content = plan_content
    /\ ~PlanSaved
    /\ Len(calls) = 1

\* What the claims call a fenced block: the text between the first fence
\* opener and the next three backticks.
FenceOpeners(t) == {i \in 1..Len(t) : t[i] = "fence_json"}

FencedBody(t) ==
  LET i == CHOOSE x \in FenceOpeners(t) : \A y \in FenceOpeners(t) : x <= y
      ends == {j \in (i + 1)..Len(t) : t[j] = "fence"}
      j == CHOOSE x \in ends : \A y \in ends : x <= y
  IN IF ends = {} THEN <<>> ELSE SubSeq(t, i + 1, j - 1)

PlanIn(v) ==
  IF HasKey(v, "implementation_plan") THEN GetKey(v, "implementation_plan") ELSE v

IsPlanText(b) ==
  /\ json_loads(b).ok
  /\ PlanIn(json_loads(b).v).t = "obj"
  /\ HasKey(PlanIn(json_loads(b).v), "files")

HasFencedPlan(t) == FenceOpeners(t) # {} /\ IsPlanText(FencedBody(t))

\* C9: from a response that holds a fenced json block with a valid plan the
\* parser extracts the plan inside the fence, whatever text surrounds it.
C9_FencedPlanExtracted ==
  (Parsed /\ HasFencedPlan(plan_content)) =>
    implementation_plan = PlanIn(json_loads(FencedBody(plan_content)).v)

\* The first balanced span: from the first opening brace to the brace that
\* closes it.
RECURSIVE CloseOf(_, _, _)
CloseOf(t, i, depth) ==
  IF i > Len(t) THEN 0
  ELSE IF t[i] = "{" THEN CloseOf(t, i + 1, depth + 1)
  ELSE IF t[i] = "}" THEN (IF depth = 1 THEN i ELSE CloseOf(t, i + 1, depth - 1))
  ELSE CloseOf(t, i + 1, depth)

Opens(t) == {i \in 1..Len(t) : t[i] = "{"}

FirstOpen(t) == CHOOSE x \in Opens(t) : \A y \in Opens(t) : x <= y

HasBalancedSpan(t) == Opens(t) # {} /\ CloseOf(t, FirstOpen(t) + 1, 1) > 0

FirstBalancedSpan(t) == SubSeq(t, FirstOpen(t), CloseOf(t, FirstOpen(t) + 1, 1))

\* C10: without a fenced block the text handed to the JSON parser is the
\* first balanced span of the response, so a valid plan object written
\* without fencing is extracted, whatever prose surrounds it.
C10_FirstBalancedSpan ==
  (Parsed /\ FenceOpeners(plan_content) = {} /\ HasBalancedSpan(plan_content)
     /\ IsPlanText(FirstBalancedSpan(plan_content))) =>
    /\ json_str = FirstBalancedSpan(plan_content)
    /\ implementation_plan = PlanIn(json_loads(FirstBalancedSpan(plan_content)).v)

\* C19: the workspace root is created when absent before anything is
\* written into the workspace, the orchestrator's implementation_plan.json
\* included, so that a run started without the root does not fail for it.
C19_RootCreatedBeforeWrites ==
  /\ pc = "save_plan" => Exists(fs, RootPath)
  /\ ~(pc = "raised" /\ raised.type = "FileNotFoundError" /\ ~Exists(fs, RootPath))


\* A batch interaction has been started and the engine has called no tool
\* in it yet.
BatchStarts(k) == pc = "batch_invoke" /\ batch_index = k /\ tool_result = NoCall

PlanWritten ==
  /\ Exists(fs, PlanPath)
  /\ fs[PlanPath] = FileNode(json_dump(implementation_plan))

WriteErrors == {"FileNotFoundError", "NotADirectoryError", "IsADirectoryError"}

\* C18: when the first implementation batch interaction starts,
\* implementation_plan.json at the workspace root holds the whole parsed
\* plan; when the write of the plan fails, the run ends without any
\* implementation or testing interaction.
C18_PlanWrittenBeforeBatches ==
  /\ (pc \in {"make_batches", "batch_prepare"} /\ batch_index <= 1) => PlanWritten
  /\ BatchStarts(1) => PlanWritten
  /\ raised.type \in WriteErrors =>
       /\ pc = "raised"
       /\ \A i \in 1..Len(calls) : calls[i].phase = "planning"

C18_Witness ==
  /\ BatchStarts(1)
  /\ PlanWritten
  /\ calls[Len(calls)] = Call("implementation", 1, RecursionLimit)

\* C20: when a batch interaction starts, the folder structure given to it is
\* the listing of the workspace as the previous batches left it: it holds
\* every effect of the batch before and is no older listing.
C20_ListingRereadPerBatch ==
  \A k \in 1..Len(file_batches) :
    BatchStarts(k) => folder_structure = FsListItems(fs, RootPath)

C20_Witness ==
  /\ BatchStarts(2)
  /\ [type |-> "f", rel |-> << <<FileNames[1]>> >>] \in folder_structure
  /\ fs[Append(RootPath, <<FileNames[1]>>)] = FileNode(AgentContent)


EndedCalls(ph) == {i \in CallsOf(ph) : calls[i].outcome # "running"}

RECURSIVE OutcomePaths(_, _)
OutcomePaths(results, k) ==
  IF k > Len(results) THEN <<>> ELSE results[k].files \o OutcomePaths(results, k + 1)

PlanPaths(files) == [i \in 1..Len(files.items) |-> GetKey(files.items[i], "path")]

\* C21: the implementation results hold one outcome for each batch whose
\* interaction has returned or raised and none for the others, in ascending
\* batch order, each with exactly the paths of its batch; in the returned
\* result there is one outcome per batch and the paths of the outcomes, one
\* after the other, are the paths of the plan's file list in its order.
C21_OutcomesFollowPlanOrder ==
  /\ Len(implementation_results) = Cardinality(EndedCalls("implementation"))
  /\ \A k \in 1..Len(implementation_results) :
        /\ implementation_results[k].batch = k
        /\ implementation_results[k].files = BatchPaths(file_batches[k])
  /\ pc = "done" =>
        /\ result.results = implementation_results
        /\ Len(result.results) = Len(file_batches)
        /\ WellFormedFiles(files_to_implement) =>
              OutcomePaths(result.results, 1) = PlanPaths(files_to_implement)


TestingRaised ==
  /\ CallsOf("testing") # {}
  /\ calls[Len(calls)].phase = "testing"
  /\ calls[Len(calls)].outcome = "raised"

\* C22: when the testing interaction raises, testing_phase has the status
\* error and the text of the error; from the end of Implementation to the
\* return the implementation results do not change, the returned results
\* and counts are those of Implementation, and the steps of the orchestrator
\* (the catch and the return) leave the workspace as it is.
C22_TestingFailureKeepsImplementation ==
  [][/\ pc \in {"testing", "testing_invoke", "return"} =>
          implementation_results' = implementation_results
     /\ TestingRaised' =>
          /\ pc' \in {"return", "done"}
          /\ testing_phase_result'.status = "error"
          /\ testing_phase_result'.error = calls'[Len(calls')].error
          /\ testing_phase_result'.error \in EngineErrors
          /\ fs' = fs
     /\ (TestingRaised' /\ pc' = "done") =>
          /\ result'.testing_phase = testing_phase_result
          /\ result'.results = implementation_results
          /\ result'.files_implemented = FilesImplemented(implementation_results)
          /\ result'.files_failed = FilesFailed(implementation_results)]_vars

\* The testing interaction wrote the test file and then raised: the run has
\* returned, one batch succeeded and the test file is still there.
C22_Witness ==
  /\ pc = "done" /\ TestingRaised
  /\ result.testing_phase.status = "error"
  /\ result.files_implemented = 1
  /\ Exists(fs, Append(RootPath, TestFileName))


AfterSavePlan ==
  {"make_batches", "batch_prepare", "batch_invoke", "testing", "testing_invoke",
   "return", "done"}

\* C23: once the orchestrator has written implementation_plan.json, no tool
\* call of an agent changes or deletes it: during Implementation and Testing
\* and at the end of the run the file holds the plan parsed in Planning.
C23_PlanFileOwnedByOrchestrator ==
  pc \in AfterSavePlan => PlanWritten


KeysOf(o) == {o.keys[i] : i \in 1..Len(o.keys)}

IsStringList(v) == v.t = "arr" /\ \A i \in 1..Len(v.items) : v.items[i].t = "str"

IsFileEntry(e) ==
  /\ e.t = "obj"
  /\ HasKey(e, "path") /\ GetKey(e, "path").t = "str"
  /\ HasKey(e, "description") /\ GetKey(e, "description").t = "str"

PlanShape(v) ==
  /\ v.t = "obj"
  /\ KeysOf(v) = {"files", "dependencies", "notes"}
  /\ GetKey(v, "files").t = "arr"
  /\ \A i \in 1..Len(GetKey(v, "files").items) : IsFileEntry(GetKey(v, "files").items[i])
  /\ IsStringList(GetKey(v, "dependencies"))
  /\ GetKey(v, "notes").t = "str"

\* C24: the document the orchestrator has written to
\* implementation_plan.json is an object with exactly the keys files,
\* dependencies and notes: files a list of objects with a string path and a
\* string description, dependencies a list of strings, notes a string.
C24_PersistedPlanShape ==
  pc = "make_batches" =>
    /\ Exists(fs, PlanPath)
    /\ json_loads(fs[PlanPath].content).ok
    /\ PlanShape(json_loads(fs[PlanPath].content).v)


\* The plan of a parsed JSON object: the value under the wrapper key when
\* the object has it, the object itself otherwise.
PlanOfObject(o) ==
  IF HasKey(o, "implementation_plan") THEN GetKey(o, "implementation_plan") ELSE o

\* C28: when the JSON text taken from the response parses to an object, the
\* plan is the value under its key implementation_plan, or the object itself
\* when it has no such key; when that plan is an object with a files key the
\* parse succeeds and that files list is the one cut into batches.  Stated
\* where the parse has just ended and where the first batch is prepared.
C28_WrapperOrWholeObject ==
  /\ (pc \in {"save_plan", "raised"} /\ Parsed
        /\ json_loads(json_str).ok /\ json_loads(json_str).v.t = "obj") =>
       LET plan == PlanOfObject(json_loads(json_str).v)
       IN (plan.t = "obj" /\ HasKey(plan, "files")) =>
            /\ raised.type # "RuntimeError"
            /\ implementation_plan = plan
            /\ files_to_implement = GetKey(plan, "files")
  /\ (pc = "batch_prepare" /\ batch_index = 1 /\ batch_size >= 1
        /\ files_to_implement.t = "arr") =>
       Concat(file_batches, 1) =
         GetKey(PlanOfObject(json_loads(json_str).v), "files").items

\* A wrapped plan of two files, cut into two batches.
C28_Witness ==
  /\ pc = "batch_prepare" /\ batch_index = 1 /\ batch_size = 1
  /\ Len(file_batches) = 2
  /\ implementation_plan = PlanOf(2)
  /\ HasKey(json_loads(json_str).v, "implementation_plan")

\* C34: a run with a parsed and saved plan of N files and batch_size B >= 1
\* terminates, every interaction returning or raising, and has then made
\* exactly 1 planning interaction, ceil(N/B) implementation interactions
\* and 1 testing interaction, each implementation and testing interaction
\* invoked with the step limit of 250.
C34_TerminatesWithinBudget ==
  /\ [](\A i \in CallsOf("implementation") \cup CallsOf("testing") :
          calls[i].recursion_limit = RecursionLimit)
  /\ []((pc = "done" /\ batch_size >= 1 /\ WellFormedFiles(files_to_implement)) =>
          /\ Cardinality(CallsOf("planning")) = 1
          /\ Cardinality(CallsOf("implementation")) =
               CeilDiv(Len(files_to_implement.items), batch_size)
          /\ Cardinality(CallsOf("testing")) = 1
          /\ \A i \in 1..Len(calls) : calls[i].outcome \in {"returned", "raised"})
  /\ ((pc = "make_batches" /\ batch_size >= 1 /\ WellFormedFiles(files_to_implement))
        ~> (pc = "done"))

\* Three files in batches of two: four interactions, the two batches and
\* the testing interaction with the limit of 250.
C34_Witness ==
  /\ pc = "done" /\ batch_size = 2
  /\ WellFormedFiles(files_to_implement) /\ Len(files_to_implement.items) = 3
  /\ Len(calls) = 4
  /\ Cardinality(CallsOf("implementation")) = 2
  /\ calls[2].recursion_limit = RecursionLimit /\ calls[4].recursion_limit = RecursionLimit

\* The functions defined at the top level of a parsed file, in the order
\* of the file, each with its docstring.
TopLevelFunctions(tree) ==
  LET top == SelectSeq(tree, IsFunctionDefOrAsync)
  IN [i \in 1..Len(top) |-> FuncInfo(top[i])]

ReadDefinitions(res) ==
  res.tool = "fs_read_function_definitions" /\ res.raised = "none" /\ res.marker = "Success"

\* C35: fs_read_function_definitions on a file that parses returns exactly
\* the functions defined at the top level of the file, async ones
\* included, with their docstrings, and none that is nested in a function
\* or in a class.
C35_TopLevelFunctionsOnly ==
  ReadDefinitions(tool_result) =>
    tool_result.result =
      TopLevelFunctions(fs[_resolve(fs, tool_result.args.path).p].content)

\* The number of places at which path v stands in the outcomes.
Occurrences(results, v) ==
  Cardinality(UNION {{<<k, i>> : i \in {j \in DOMAIN results[k].files :
                                            results[k].files[j] = v}} :
                       k \in DOMAIN results})

\* C37: whatever batch_size the run was started with, in the returned
\* result each file of the plan stands in exactly one batch outcome, and
\* files_implemented + files_failed is the number of files of the plan.
C37_EveryFileAttemptedOnce ==
  (pc = "done" /\ WellFormedFiles(files_to_implement)) =>
    /\ \A i \in 1..Len(files_to_implement.items) :
          Occurrences(result.results, GetKey(files_to_implement.items[i], "path")) = 1
    /\ result.files_implemented + result.files_failed = Len(files_to_implement.items)

\* The batches of a result whose outcome is an error, in order.
RECURSIVE FailedBatches(_, _)
FailedBatches(results, i) ==
  IF i > Len(results) THEN <<>>
  ELSE (IF results[i].status = "error" THEN <<results[i].batch>> ELSE <<>>)
       \o FailedBatches(results, i + 1)

\* C39: when the run has finished with files_failed > 0, the summary of
\* the script prints every failed batch with its error and then the
\* Testing Phase section, and does not raise while it reads the outcomes.
C39_SummaryListsFailedBatches ==
  (pc \in {"summary_done", "summary_raised"} /\ result.files_failed > 0) =>
    /\ pc = "summary_done"
    /\ MainSummary(result).failed = FailedBatches(result.results, 1)
    /\ MainSummary(result).testing_printed

====
